---- MODULE Spec2Model ----
(***************************************************************************)
(* Mutiny: the gateway receive loop (GatewayClient.poll_loop), the event   *)
(* variants' _gateway_handle steps on the State cache, and the listener    *)
(* dispatcher (EventHandler).                                              *)
(*                                                                         *)
(* Python dicts are modelled as TLA+ functions/records whose DOMAIN is the *)
(* key set, so "key in dict" is "key \in DOMAIN dict".  A Python attribute *)
(* that was never assigned is the string Unset; reading it raises          *)
(* AttributeError.                                                         *)
(***************************************************************************)
EXTENDS Integers, Sequences, FiniteSets, TLC

VARIABLES
    gateway_format,   \* GatewayClient.gateway_format: "json" | "msgpack"
    pc,               \* position of connect()/poll_loop
    connect_result,   \* how connect() ended: "pending" | "returned" | exception name
    msg,              \* the frame poll_loop is working on
    event,            \* the decoded event of that frame
    state,            \* State + GatewayClient.authenticated
    listeners,        \* EventHandler.listeners: event class -> list of listeners
    tasks,            \* listener tasks created by dispatch and not yet finished
    sent,             \* outbound messages written to the socket
    hist,             \* history (observation only): counters of what happened
    backoff,          \* an ExponentialBackoff and what its calls returned
    client            \* the Client facade and what its last call did

vars == <<gateway_format, pc, connect_result, msg, event, state, listeners,
          tasks, sent, hist, backoff, client>>

\* the variables of the gateway connection and the dispatcher
gateway_vars == <<gateway_format, pc, connect_result, msg, event, state,
                  listeners, tasks, sent, hist>>

(***************************************************************************)
(* Bounds and small input sets                                             *)
(***************************************************************************)
MaxFrames == 2        \* frames received on the pipeline specification
MaxCacheFrames == 3   \* frames received on the cache specification
MaxUpdateFrames == 3  \* frames received on the update specification
MaxRequests == 9      \* get_delay calls since construction or the last reset
MaxResets == 2        \* reset calls on one backoff
JitterSteps == 2      \* random.random() is one of 0, 1/JitterSteps, ...
MaxListeners == 2     \* registrations made through add_listener
MaxTasks == 3         \* listener tasks alive when a frame is taken
MaxSends == 3         \* messages sent on one connection
MaxCalls == 4         \* calls made on one Client
MaxChannelFrames == 3 \* frames taken in the channel specification


None == "<None>"      \* Python None (in string-valued fields)
Unset == "<unset>"    \* attribute never assigned

EmptyDict == [k \in {} |-> None]

Range(s) == {s[i] : i \in DOMAIN s}

\* dict.pop(key, None) / del dict[key] on a present key
DictRemove(d, k) == [x \in (DOMAIN d) \ {k} |-> d[x]]

\* dict[key] = value
DictPut(d, k, v) == [x \in (DOMAIN d) \cup {k} |-> IF x = k THEN v ELSE d[x]]

\* list.remove(x): removes the first occurrence (the caller checks presence)
RECURSIVE ListRemove(_, _)
ListRemove(s, x) ==
    IF s = <<>> THEN <<>>
    ELSE IF Head(s) = x THEN Tail(s)
    ELSE <<Head(s)>> \o ListRemove(Tail(s), x)

(***************************************************************************)
(* Model fields (models/bases/models.py)                                   *)
(*                                                                         *)
(* A field table maps an attribute name to [keys, required, default]: the  *)
(* path of the value in the raw dict, whether field() was given no default *)
(* and the default otherwise.  Only the attributes the handlers read or    *)
(* write are listed; the raw payloads used below always carry the other    *)
(* required keys.                                                          *)
(***************************************************************************)
Fld(keys, required, default) ==
    [keys |-> keys, required |-> required, default |-> default]

\* ParserData.get_field: does the path exist in partial_data (no KeyError)?
FieldPresent(raw, keys) ==
    /\ keys[1] \in DOMAIN raw
    /\ Len(keys) = 2 => keys[2] \in DOMAIN raw[keys[1]]

\* ParserData.get_field: the value at the path
FieldValue(raw, keys) ==
    IF Len(keys) = 1 THEN raw[keys[1]] ELSE raw[keys[1]][keys[2]]

\* ParserData.get_field raises InitFieldMissing for some field of the table
InitFieldMissing(raw, FIELDS) ==
    \E a \in DOMAIN FIELDS :
        FIELDS[a].required /\ ~FieldPresent(raw, FIELDS[a].keys)

\* an update that resets every optional attribute missing from the data
Model_update_from_dict_defaults(cur, raw, init, FIELDS) ==
    [a \in (DOMAIN cur) \cup (DOMAIN FIELDS) |->
        IF a \notin DOMAIN FIELDS THEN cur[a]
        ELSE IF FieldPresent(raw, FIELDS[a].keys)
             THEN FieldValue(raw, FIELDS[a].keys)
        ELSE IF init \/ ~FIELDS[a].required THEN FIELDS[a].default
        ELSE cur[a]]

\* Model._update_from_dict as written: a key missing from partial_data
\* falls back to the default only when init is true; on an update the
\* UpdateFieldMissing is swallowed and the attribute keeps its value.
Model_update_from_dict(cur, raw, init, FIELDS) ==
    [a \in (DOMAIN cur) \cup (DOMAIN FIELDS) |->
        IF a \notin DOMAIN FIELDS THEN cur[a]
        ELSE IF FieldPresent(raw, FIELDS[a].keys)
             THEN FieldValue(raw, FIELDS[a].keys)
        ELSE IF init THEN FIELDS[a].default
        ELSE cur[a]]

RoleFIELDS ==
    [id     |-> Fld(<<"id">>, TRUE, None),
     name   |-> Fld(<<"name">>, TRUE, None),
     colour |-> Fld(<<"colour">>, FALSE, None)]

\* Status (models/user.py); presence defaults to "Online"
StatusFIELDS ==
    [text     |-> Fld(<<"text">>, FALSE, None),
     presence |-> Fld(<<"presence">>, FALSE, "Online")]

MemberFIELDS ==
    [id        |-> Fld(<<"_id", "user">>, TRUE, None),
     server_id |-> Fld(<<"_id", "server">>, TRUE, None),
     nickname  |-> Fld(<<"nickname">>, FALSE, None),
     avatar    |-> Fld(<<"avatar">>, FALSE, None)]

ServerFIELDS ==
    [id          |-> Fld(<<"_id">>, TRUE, None),
     name        |-> Fld(<<"name">>, TRUE, None),
     description |-> Fld(<<"description">>, FALSE, None),
     icon        |-> Fld(<<"icon">>, FALSE, None),
     banner      |-> Fld(<<"banner">>, FALSE, None),
     channel_ids |-> Fld(<<"channels">>, TRUE, <<>>),
     roles       |-> Fld(<<"roles">>, FALSE, EmptyDict),
     _members    |-> Fld(<<"some placeholder">>, FALSE, EmptyDict)]

\* User.relations is None (no "relations" in the data) or a dict from user
\* id to status.  NoRelationsRaw is the None the parser is handed, NoRelations
\* the None it returns; a raw relations value is a list of [_id, status].
NoRelationsRaw == <<[_id |-> None, status |-> None]>>

NoRelations == [u \in {None} |-> None]

UserFIELDS ==
    [id                  |-> Fld(<<"_id">>, TRUE, None),
     username            |-> Fld(<<"username">>, TRUE, None),
     avatar              |-> Fld(<<"avatar">>, FALSE, None),
     status              |-> Fld(<<"status">>, FALSE, EmptyDict),
     relations           |-> Fld(<<"relations">>, FALSE, NoRelationsRaw),
     relationship_status |-> Fld(<<"relationship">>, FALSE, None)]

\* Channel and its subclasses; the class is chosen by Channel._from_dict.
\* An attachment (icon, avatar, banner) is represented by its id.
ChannelFIELDS(cls) ==
    LET base == [id           |-> Fld(<<"_id">>, TRUE, None),
                 channel_type |-> Fld(<<"channel_type">>, TRUE, None)]
    IN  CASE cls = "TextChannel" ->
               base @@ [server_id       |-> Fld(<<"server">>, TRUE, None),
                        name            |-> Fld(<<"name">>, TRUE, None),
                        description     |-> Fld(<<"description">>, FALSE, None),
                        icon            |-> Fld(<<"icon">>, FALSE, None),
                        last_message_id |-> Fld(<<"last_message_id">>, FALSE, None)]
          [] cls = "VoiceChannel" ->
               base @@ [server_id       |-> Fld(<<"server">>, TRUE, None),
                        name            |-> Fld(<<"name">>, TRUE, None),
                        description     |-> Fld(<<"description">>, FALSE, None),
                        icon            |-> Fld(<<"icon">>, FALSE, None)]
          [] cls = "GroupChannel" ->
               base @@ [recipient_ids   |-> Fld(<<"recipients">>, TRUE, <<>>),
                        name            |-> Fld(<<"name">>, TRUE, None),
                        description     |-> Fld(<<"description">>, FALSE, None),
                        icon            |-> Fld(<<"icon">>, FALSE, None),
                        last_message_id |-> Fld(<<"last_message_id">>, FALSE, None)]
          [] cls = "DMChannel" ->
               base @@ [active          |-> Fld(<<"active">>, TRUE, None),
                        recipient_ids   |-> Fld(<<"recipients">>, TRUE, <<>>),
                        last_message_id |-> Fld(<<"last_message_id">>, FALSE, None)]
          [] cls = "SavedMessagesChannel" ->
               base @@ [user_id |-> Fld(<<"user">>, TRUE, None)]
          [] OTHER -> base

\* CHANNEL_TYPES.get(channel_type, _UnknownChannel)
CHANNEL_TYPES(channel_type) ==
    CASE channel_type = "SavedMessages" -> "SavedMessagesChannel"
      [] channel_type = "DirectMessage" -> "DMChannel"
      [] channel_type = "Group" -> "GroupChannel"
      [] channel_type = "TextChannel" -> "TextChannel"
      [] channel_type = "VoiceChannel" -> "VoiceChannel"
      [] OTHER -> "_UnknownChannel"

\* Server._roles_parser: every role is built anew from its raw data
Server_roles_parser(rolesRaw) ==
    [rid \in DOMAIN rolesRaw |->
        Model_update_from_dict(EmptyDict, DictPut(rolesRaw[rid], "id", rid),
                               TRUE, RoleFIELDS)]

\* Server(state, raw) when init, server._update_from_dict(raw) otherwise
Server_update_from_dict(cur, raw, init) ==
    IF init \/ "roles" \in DOMAIN raw
    THEN [Model_update_from_dict(cur, raw, init, ServerFIELDS)
            EXCEPT !.roles = Server_roles_parser(@)]
    ELSE Model_update_from_dict(cur, raw, init, ServerFIELDS)

\* A "roles" value one of whose roles lacks a required field
Server_roles_raises(raw) ==
    /\ "roles" \in DOMAIN raw
    /\ \E rid \in DOMAIN raw.roles :
          InitFieldMissing(DictPut(raw.roles[rid], "id", rid), RoleFIELDS)

\* User._status_parser: Status(raw) is built anew whenever the field is set
User_status_parser(statusRaw) ==
    Model_update_from_dict(EmptyDict, statusRaw, TRUE, StatusFIELDS)

\* User._relations_parser: None stays None, a list becomes a dict keyed by
\* _id in which a later entry for the same user replaces an earlier one
User_relations_parser(raws) ==
    IF raws = NoRelationsRaw THEN NoRelations
    ELSE [u \in {raws[i]._id : i \in DOMAIN raws} |->
             raws[CHOOSE i \in DOMAIN raws :
                     /\ raws[i]._id = u
                     /\ \A j \in DOMAIN raws : j > i => raws[j]._id # u].status]

\* User(state, raw) when init, user._update_from_dict(raw) otherwise: the
\* parsers run for the fields that are set
User_update_from_dict(cur, raw, init) ==
    [Model_update_from_dict(cur, raw, init, UserFIELDS) EXCEPT
        !.status = IF init \/ "status" \in DOMAIN raw
                   THEN User_status_parser(@) ELSE @,
        !.relations = IF init \/ "relations" \in DOMAIN raw
                      THEN User_relations_parser(@) ELSE @]

\* Channel._from_dict(state, raw)
Channel_from_dict(raw) ==
    Model_update_from_dict([cls |-> CHANNEL_TYPES(raw.channel_type)], raw, TRUE,
                           ChannelFIELDS(CHANNEL_TYPES(raw.channel_type)))

\* Channel._from_dict raises (KeyError or InitFieldMissing)
Channel_from_dict_raises(raw) ==
    \/ "channel_type" \notin DOMAIN raw
    \/ InitFieldMissing(raw, ChannelFIELDS(CHANNEL_TYPES(raw.channel_type)))

(***************************************************************************)
(* The apply steps (events.py).  A handler maps the state to               *)
(* [st, exc]: the state it leaves behind and the exception it raised       *)
(* (NoExc when it returned).  Mutations made before a raise stay in st.    *)
(***************************************************************************)
NoExc == "none"
Ok(st) == [st |-> st, exc |-> NoExc]
Raise(st, e) == [st |-> st, exc |-> e]

\* State.clear: empty caches, no user attribute, ready cleared; the
\* gateway's authenticated attribute is assigned nowhere in __init__
\* (gateway.py 51-68), so it starts out unset; its heartbeat_task
\* attribute is assigned None there (line 64) and nowhere else.
State_clear ==
    [servers |-> EmptyDict, channels |-> EmptyDict, users |-> EmptyDict,
     user |-> Unset, ready |-> FALSE, authenticated |-> Unset,
     heartbeat_task |-> None]

\* ReadyEvent._gateway_handle (lines 170-221).  The accumulator carries the
\* state (existing objects are patched in place, so the patch is visible
\* through state even before the new dict replaces the old one), the new
\* dicts under construction, old_members and the exception raised so far.
Ready_acc(st) ==
    [st |-> st, exc |-> NoExc, servers |-> EmptyDict, channels |-> EmptyDict,
     users |-> EmptyDict, old_members |-> EmptyDict]

\* lines 182-185 for a cached server: patch it, keep its members aside
Ready_server_patch(acc, sid, upd) ==
    [acc EXCEPT !.st.servers[sid] = [upd EXCEPT !._members = EmptyDict],
                !.servers = DictPut(@, sid, [upd EXCEPT !._members = EmptyDict]),
                !.old_members = DictPut(@, sid, acc.st.servers[sid]._members)]

\* lines 177-185, one iteration
Ready_server_one(acc, raw) ==
    IF raw._id \in DOMAIN acc.st.servers
    THEN Ready_server_patch(acc, raw._id,
            Server_update_from_dict(acc.st.servers[raw._id], raw, FALSE))
    ELSE IF InitFieldMissing(raw, ServerFIELDS)
    THEN [acc EXCEPT !.exc = "InitFieldMissing"]
    ELSE [acc EXCEPT !.servers =
            DictPut(@, raw._id, Server_update_from_dict(EmptyDict, raw, TRUE))]

RECURSIVE Ready_servers(_, _, _)
Ready_servers(acc, raws, i) ==
    IF i > Len(raws) \/ acc.exc # NoExc THEN acc
    ELSE Ready_servers(Ready_server_one(acc, raws[i]), raws, i + 1)

Ready_channel_patch(acc, cid, upd) ==
    [acc EXCEPT !.st.channels[cid] = upd, !.channels = DictPut(@, cid, upd)]

\* lines 190-196, one iteration
Ready_channel_one(acc, raw) ==
    IF raw._id \in DOMAIN acc.st.channels
    THEN Ready_channel_patch(acc, raw._id,
            Model_update_from_dict(acc.st.channels[raw._id], raw, FALSE,
                                   ChannelFIELDS(acc.st.channels[raw._id].cls)))
    ELSE IF Channel_from_dict_raises(raw)
    THEN [acc EXCEPT !.exc = "InitFieldMissing"]
    ELSE [acc EXCEPT !.channels = DictPut(@, raw._id, Channel_from_dict(raw))]

RECURSIVE Ready_channels(_, _, _)
Ready_channels(acc, raws, i) ==
    IF i > Len(raws) \/ acc.exc # NoExc THEN acc
    ELSE Ready_channels(Ready_channel_one(acc, raws[i]), raws, i + 1)

\* lines 207-209: the user goes into the new dict and, when its
\* relationship status is USER, becomes state.user at once
Ready_user_put(acc, uid, usr, isNew) ==
    [acc EXCEPT !.st.users = IF isNew THEN @ ELSE DictPut(@, uid, usr),
                !.users = DictPut(@, uid, usr),
                !.st.user = IF usr.relationship_status = "User" THEN uid ELSE @]

\* lines 201-209, one iteration
Ready_user_one(acc, raw) ==
    IF raw._id \in DOMAIN acc.st.users
    THEN Ready_user_put(acc, raw._id,
            User_update_from_dict(acc.st.users[raw._id], raw, FALSE), FALSE)
    ELSE IF InitFieldMissing(raw, UserFIELDS)
    THEN [acc EXCEPT !.exc = "InitFieldMissing"]
    ELSE Ready_user_put(acc, raw._id,
            User_update_from_dict(EmptyDict, raw, TRUE), TRUE)

RECURSIVE Ready_users(_, _, _)
Ready_users(acc, raws, i) ==
    IF i > Len(raws) \/ acc.exc # NoExc THEN acc
    ELSE Ready_users(Ready_user_one(acc, raws[i]), raws, i + 1)

\* line 220: servers[member.server_id]._members[member.id] = member
Ready_member_put(acc, member) ==
    IF member.server_id \notin DOMAIN acc.st.servers
    THEN [acc EXCEPT !.exc = "KeyError"]
    ELSE [acc EXCEPT !.st.servers[member.server_id]._members =
                        DictPut(@, member.id, member)]

\* old_members.get(server_id, {})
Ready_old_members(acc, sid) ==
    IF sid \in DOMAIN acc.old_members THEN acc.old_members[sid] ELSE EmptyDict

\* lines 213-220, one iteration
Ready_member_one(acc, raw) ==
    IF raw._id.user \in DOMAIN Ready_old_members(acc, raw._id.server)
    THEN Ready_member_put(acc,
            Model_update_from_dict(Ready_old_members(acc, raw._id.server)[raw._id.user],
                                   raw, FALSE, MemberFIELDS))
    ELSE Ready_member_put(acc,
            Model_update_from_dict(EmptyDict, raw, TRUE, MemberFIELDS))

RECURSIVE Ready_members(_, _, _)
Ready_members(acc, raws, i) ==
    IF i > Len(raws) \/ acc.exc # NoExc THEN acc
    ELSE Ready_members(Ready_member_one(acc, raws[i]), raws, i + 1)

\* lines 186, 197, 210: state.<which> = the new dict, once its loop is through
Ready_commit(acc, which) ==
    IF acc.exc # NoExc THEN acc ELSE [acc EXCEPT !.st[which] = acc[which]]

\* line 221: state.ready.set()
Ready_finish(acc) ==
    IF acc.exc = NoExc THEN Ok([acc.st EXCEPT !.ready = TRUE])
    ELSE Raise(acc.st, acc.exc)

ReadyEvent_handle(st, raw) ==
    Ready_finish(
      Ready_members(
        Ready_commit(
          Ready_users(
            Ready_commit(
              Ready_channels(
                Ready_commit(Ready_servers(Ready_acc(st), raw.servers, 1), "servers"),
                raw.channels, 1),
              "channels"),
            raw.users, 1),
          "users"),
        raw.members, 1))

\* an Error handler that would not look at the authenticated flag
ErrorEvent_handle_flag_ignored(st, raw) ==
    IF raw.error = "AlreadyAuthenticated" THEN Ok(st)
    ELSE IF raw.error = "InvalidSession" THEN Raise(st, "InvalidCredentials")
    ELSE IF raw.error = "OnboardingNotFinished" THEN Raise(st, "OnboardingNotFinished")
    ELSE Raise(st, "AuthenticationError")

\* ErrorEvent._gateway_handle.  Reading gateway.authenticated before any
\* AuthenticatedEvent assigned it raises AttributeError.
ErrorEvent_handle(st, raw) ==
    IF raw.error = "AlreadyAuthenticated" THEN Ok(st)
    ELSE IF st.authenticated = Unset THEN Raise(st, "AttributeError")
    ELSE IF st.authenticated = "True" THEN Ok(st)
    ELSE IF raw.error = "InvalidSession" THEN Raise(st, "InvalidCredentials")
    ELSE IF raw.error = "OnboardingNotFinished" THEN Raise(st, "OnboardingNotFinished")
    ELSE Raise(st, "AuthenticationError")

\* AuthenticatedEvent._gateway_handle
AuthenticatedEvent_handle(st, raw) ==
    Ok([st EXCEPT !.authenticated = "True"])

\* Message fields read by the handler; content is required (no default)
MessageFIELDS ==
    [id         |-> Fld(<<"_id">>, TRUE, None),
     channel_id |-> Fld(<<"channel">>, TRUE, None),
     content    |-> Fld(<<"content">>, TRUE, None)]

\* Message._content_parser: isinstance(content, str).  A text content is
\* the record [str |-> ...], a system message the record [type |-> ...].
Message_content_is_str(raw) == "str" \in DOMAIN raw.content

\* a channel that takes every message as its last one
Channel_update_from_MessageEvent_any_content(ch, raw) ==
    IF "last_message_id" \in DOMAIN ch
    THEN [ch EXCEPT !.last_message_id = raw._id]
    ELSE ch

\* a Message handler that would keep the message in the store
MessageEvent_handle_keeps_message(st, raw) ==
    IF raw.channel \notin DOMAIN st.channels THEN Raise(st, "KeyError")
    ELSE Ok([st EXCEPT !.channels = DictPut(@, raw._id, raw)])

\* channel._update_from_event(MessageEvent): the channel classes with a
\* last_message_id advance it for non-system content only
Channel_update_from_MessageEvent(ch, raw) ==
    IF "last_message_id" \in DOMAIN ch /\ Message_content_is_str(raw)
    THEN [ch EXCEPT !.last_message_id = raw._id]
    ELSE ch

\* MessageEvent._gateway_handle
MessageEvent_handle(st, raw) ==
    IF InitFieldMissing(raw, MessageFIELDS) THEN Raise(st, "InitFieldMissing")
    ELSE IF raw.channel \notin DOMAIN st.channels THEN Raise(st, "KeyError")
    ELSE Ok([st EXCEPT !.channels[raw.channel] =
                           Channel_update_from_MessageEvent(@, raw)])

\* ChannelCreateEvent._gateway_handle; server_id = raw_data.get("server")
ChannelCreateEvent_handle(st, raw) ==
    IF Channel_from_dict_raises(raw) THEN Raise(st, "InitFieldMissing")
    ELSE IF "server" \notin DOMAIN raw
    THEN Ok([st EXCEPT !.channels = DictPut(@, raw._id, Channel_from_dict(raw))])
    ELSE IF raw.server \notin DOMAIN st.servers THEN Raise(st, "KeyError")
    ELSE Ok([st EXCEPT !.servers[raw.server].channel_ids = Append(@, raw._id),
                       !.channels = DictPut(@, raw._id, Channel_from_dict(raw))])

\* ChannelDeleteEvent._gateway_handle: the pop tolerates a miss; the
\* server lookup and the list.remove do not
ChannelDelete_unlink(popped, cid, channel) ==
    IF "server_id" \notin DOMAIN channel THEN Ok(popped)
    ELSE IF channel.server_id \notin DOMAIN popped.servers
    THEN Raise(popped, "KeyError")
    ELSE IF cid \notin Range(popped.servers[channel.server_id].channel_ids)
    THEN Raise(popped, "ValueError")
    ELSE Ok([popped EXCEPT !.servers[channel.server_id].channel_ids =
                               ListRemove(@, cid)])

ChannelDeleteEvent_handle(st, raw) ==
    IF raw.id \notin DOMAIN st.channels THEN Ok(st)
    ELSE ChannelDelete_unlink([st EXCEPT !.channels = DictRemove(@, raw.id)],
                              raw.id, st.channels[raw.id])

\* ServerDeleteEvent._gateway_handle: servers.pop(server_id), no default
ServerDeleteEvent_handle(st, raw) ==
    IF raw.id \notin DOMAIN st.servers THEN Raise(st, "KeyError")
    ELSE Ok([st EXCEPT !.servers = DictRemove(@, raw.id)])

\* a handler that removes the member entry and never the server
ServerMemberLeaveEvent_handle_member_only(st, raw) ==
    IF raw.id \notin DOMAIN st.servers THEN Raise(st, "KeyError")
    ELSE Ok([st EXCEPT !.servers[raw.id]._members = DictRemove(@, raw.user)])

\* ServerMemberLeaveEvent._gateway_handle
ServerMemberLeaveEvent_handle(st, raw) ==
    IF raw.id \notin DOMAIN st.servers THEN Raise(st, "KeyError")
    ELSE IF st.user = Unset
    THEN Raise([st EXCEPT !.servers[raw.id]._members = DictRemove(@, raw.user)],
               "AttributeError")
    ELSE IF raw.user = st.user THEN Ok([st EXCEPT !.servers = DictRemove(@, raw.id)])
    ELSE Ok([st EXCEPT !.servers[raw.id]._members = DictRemove(@, raw.user)])

\* ServerRoleDeleteEvent._gateway_handle: roles.pop(role_id), no default
ServerRoleDeleteEvent_handle(st, raw) ==
    IF raw.id \notin DOMAIN st.servers THEN Raise(st, "KeyError")
    ELSE IF raw.role_id \notin DOMAIN st.servers[raw.id].roles
    THEN Raise(st, "KeyError")
    ELSE Ok([st EXCEPT !.servers[raw.id].roles = DictRemove(@, raw.role_id)])

(***************************************************************************)
(* Partial updates: event.clear names at most one optional attribute that  *)
(* is set to None, then event.data is applied with _update_from_dict.      *)
(***************************************************************************)
\* self.clear = raw_data.get("clear")
EventClear(raw) == IF "clear" \in DOMAIN raw THEN raw.clear ELSE None

\* the if/elif chain on event.clear; names maps a marker to its attribute
ClearField(obj, clear, names) ==
    IF clear \in DOMAIN names THEN [obj EXCEPT ![names[clear]] = None] ELSE obj

\* an update that applies the data and only afterwards clears the attribute
UpdateAfterClear_reversed(obj, clear, names, data, FIELDS) ==
    ClearField(Model_update_from_dict(obj, data, FALSE, FIELDS), clear, names)

\* the common tail of the _update_from_event methods
UpdateAfterClear(obj, clear, names, data, FIELDS) ==
    Model_update_from_dict(ClearField(obj, clear, names), data, FALSE, FIELDS)

\* Markers each class's _update_from_event recognises
ChannelClearNames(cls) ==
    IF cls \in {"TextChannel", "VoiceChannel", "GroupChannel"}
    THEN [Icon |-> "icon", Description |-> "description"]
    ELSE EmptyDict

ServerClearNames ==
    [Icon |-> "icon", Banner |-> "banner", Description |-> "description"]

MemberClearNames == [Nickname |-> "nickname", Avatar |-> "avatar"]

RoleClearNames == [Colour |-> "colour"]

\* channel._update_from_event(ChannelUpdateEvent), every channel class
Channel_update_from_ChannelUpdateEvent(ch, raw) ==
    UpdateAfterClear(ch, EventClear(raw), ChannelClearNames(ch.cls), raw.data,
                     ChannelFIELDS(ch.cls))

\* ChannelUpdateEvent._gateway_handle
ChannelUpdateEvent_handle(st, raw) ==
    IF raw.id \notin DOMAIN st.channels THEN Raise(st, "KeyError")
    ELSE Ok([st EXCEPT !.channels[raw.id] =
                           Channel_update_from_ChannelUpdateEvent(@, raw)])

\* Server._update_from_event; a "roles" value in the data is parsed anew
Server_update_from_event(srv, raw) ==
    Server_update_from_dict(ClearField(srv, EventClear(raw), ServerClearNames),
                            raw.data, FALSE)

\* ServerUpdateEvent._gateway_handle
ServerUpdateEvent_handle(st, raw) ==
    IF raw.id \notin DOMAIN st.servers THEN Raise(st, "KeyError")
    ELSE IF Server_roles_raises(raw.data)
    THEN Raise([st EXCEPT !.servers[raw.id] =
                              ClearField(@, EventClear(raw), ServerClearNames)],
               "InitFieldMissing")
    ELSE Ok([st EXCEPT !.servers[raw.id] = Server_update_from_event(@, raw)])

\* ServerMemberUpdateEvent._gateway_handle: an uncached member is skipped
ServerMemberUpdateEvent_handle(st, raw) ==
    IF raw.id.server \notin DOMAIN st.servers THEN Raise(st, "KeyError")
    ELSE IF raw.id.user \notin DOMAIN st.servers[raw.id.server]._members
    THEN Ok(st)
    ELSE Ok([st EXCEPT !.servers[raw.id.server]._members[raw.id.user] =
                           UpdateAfterClear(@, EventClear(raw), MemberClearNames,
                                            raw.data, MemberFIELDS)])

\* ServerMemberJoinEvent._gateway_handle
ServerMemberJoinEvent_handle(st, raw) ==
    IF raw.id \notin DOMAIN st.servers THEN Raise(st, "KeyError")
    ELSE Ok([st EXCEPT !.servers[raw.id]._members =
                DictPut(@, raw.user,
                        Model_update_from_dict(
                            EmptyDict, [_id |-> [server |-> raw.id, user |-> raw.user]],
                            TRUE, MemberFIELDS))])

\* ServerRoleUpdateEvent._gateway_handle: an uncached role is built from
\* the data alone, Role(state, data)
ServerRoleUpdateEvent_handle(st, raw) ==
    IF raw.id \notin DOMAIN st.servers THEN Raise(st, "KeyError")
    ELSE IF raw.role_id \in DOMAIN st.servers[raw.id].roles
    THEN Ok([st EXCEPT !.servers[raw.id].roles[raw.role_id] =
                           UpdateAfterClear(@, EventClear(raw), RoleClearNames,
                                            raw.data, RoleFIELDS)])
    ELSE IF InitFieldMissing(raw.data, RoleFIELDS)
    THEN Raise(st, "InitFieldMissing")
    ELSE Ok([st EXCEPT !.servers[raw.id].roles =
                DictPut(@, raw.role_id,
                        Model_update_from_dict(EmptyDict, raw.data, TRUE,
                                               RoleFIELDS))])

\* User._update_from_event: "StatusText" clears a field of the status
\* object, "Avatar" the avatar; the profile markers touch nothing kept here
User_clear(u, clear) ==
    IF clear = "StatusText" THEN [u EXCEPT !.status.text = None]
    ELSE IF clear = "Avatar" THEN [u EXCEPT !.avatar = None]
    ELSE u

User_update_from_event(u, raw) ==
    User_update_from_dict(User_clear(u, EventClear(raw)), raw.data, FALSE)

\* UserUpdateEvent._gateway_handle: an uncached user is skipped
UserUpdateEvent_handle(st, raw) ==
    IF raw.id \notin DOMAIN st.users THEN Ok(st)
    ELSE Ok([st EXCEPT !.users[raw.id] = User_update_from_event(@, raw)])

\* UserRelationshipEvent._gateway_handle, lines 819-826: the entry of the
\* client user's relations is popped for NONE and stored otherwise.
\* state.user is the cached object st.users[st.user].
Relationship_store(st, uid, status) ==
    IF status # "None"
    THEN [st EXCEPT !.users[st.user].relations = DictPut(@, uid, status)]
    ELSE IF st.users[st.user].relations = NoRelations THEN st
    ELSE [st EXCEPT !.users[st.user].relations = DictRemove(@, uid)]

\* lines 827-828: a cached user gets the new relationship_status
Relationship_status_set(st, uid, status) ==
    IF uid \in DOMAIN st.users
    THEN [st EXCEPT !.users[uid].relationship_status = status]
    ELSE st

\* UserRelationshipEvent._gateway_handle: state.user must be set, and for
\* a status other than NONE the relations must not be None (line 823)
UserRelationshipEvent_handle(st, raw) ==
    IF st.user = Unset THEN Raise(st, "AttributeError")
    ELSE IF raw.status # "None" /\ st.users[st.user].relations = NoRelations
    THEN Raise(st, "AssertionError")
    ELSE Ok(Relationship_status_set(
                Relationship_store(st, raw.user._id, raw.status),
                raw.user._id, raw.status))

\* channel._update_from_event(ChannelGroupJoinEvent): only the classes
\* with recipients act on it
Channel_update_from_GroupJoin(ch, user) ==
    IF ch.cls \in {"DMChannel", "GroupChannel"}
    THEN [ch EXCEPT !.recipient_ids = Append(@, user)]
    ELSE ch

\* ChannelGroupJoinEvent._gateway_handle
ChannelGroupJoinEvent_handle(st, raw) ==
    IF raw.id \notin DOMAIN st.channels THEN Raise(st, "KeyError")
    ELSE Ok([st EXCEPT !.channels[raw.id] =
                           Channel_update_from_GroupJoin(@, raw.user)])

\* list.remove raises ValueError when the user is not a recipient
GroupLeave_raises(ch, user) ==
    /\ ch.cls \in {"DMChannel", "GroupChannel"}
    /\ user \notin Range(ch.recipient_ids)

\* channel._update_from_event(ChannelGroupLeaveEvent)
Channel_update_from_GroupLeave(ch, user) ==
    IF ch.cls \in {"DMChannel", "GroupChannel"}
    THEN [ch EXCEPT !.recipient_ids = ListRemove(@, user)]
    ELSE ch

\* a handler that keeps the channel cached whoever left
ChannelGroupLeaveEvent_handle_keeps_channel(st, raw) ==
    IF raw.id \notin DOMAIN st.channels THEN Raise(st, "KeyError")
    ELSE IF GroupLeave_raises(st.channels[raw.id], raw.user)
    THEN Raise(st, "ValueError")
    ELSE Ok([st EXCEPT !.channels[raw.id] =
                           Channel_update_from_GroupLeave(@, raw.user)])

\* ChannelGroupLeaveEvent._gateway_handle: the recipient is removed, then
\* state.user.id is compared
ChannelGroupLeaveEvent_handle(st, raw) ==
    IF raw.id \notin DOMAIN st.channels THEN Raise(st, "KeyError")
    ELSE IF GroupLeave_raises(st.channels[raw.id], raw.user)
    THEN Raise(st, "ValueError")
    ELSE IF st.user = Unset
    THEN Raise([st EXCEPT !.channels[raw.id] =
                              Channel_update_from_GroupLeave(@, raw.user)],
               "AttributeError")
    ELSE IF raw.user = st.user
    THEN Ok([st EXCEPT !.channels = DictRemove(@, raw.id)])
    ELSE Ok([st EXCEPT !.channels[raw.id] =
                           Channel_update_from_GroupLeave(@, raw.user)])

\* The EVENTS registry; Event._from_dict falls back to _UnknownEvent
EVENTS(type) ==
    CASE type = "Error" -> "ErrorEvent"
      [] type = "Authenticated" -> "AuthenticatedEvent"
      [] type = "Ready" -> "ReadyEvent"
      [] type = "Message" -> "MessageEvent"
      [] type = "MessageUpdate" -> "MessageUpdateEvent"
      [] type = "MessageDelete" -> "MessageDeleteEvent"
      [] type = "ChannelCreate" -> "ChannelCreateEvent"
      [] type = "ChannelUpdate" -> "ChannelUpdateEvent"
      [] type = "ChannelDelete" -> "ChannelDeleteEvent"
      [] type = "ChannelGroupJoin" -> "ChannelGroupJoinEvent"
      [] type = "ChannelGroupLeave" -> "ChannelGroupLeaveEvent"
      [] type = "ChannelStartTyping" -> "ChannelStartTypingEvent"
      [] type = "ChannelStopTyping" -> "ChannelStopTypingEvent"
      [] type = "ChannelAck" -> "ChannelAckEvent"
      [] type = "ServerUpdate" -> "ServerUpdateEvent"
      [] type = "ServerDelete" -> "ServerDeleteEvent"
      [] type = "ServerMemberUpdate" -> "ServerMemberUpdateEvent"
      [] type = "ServerMemberJoin" -> "ServerMemberJoinEvent"
      [] type = "ServerMemberLeave" -> "ServerMemberLeaveEvent"
      [] type = "ServerRoleUpdate" -> "ServerRoleUpdateEvent"
      [] type = "ServerRoleDelete" -> "ServerRoleDeleteEvent"
      [] type = "UserUpdate" -> "UserUpdateEvent"
      [] type = "UserRelationship" -> "UserRelationshipEvent"
      [] OTHER -> "_UnknownEvent"

\* The values of the RelationshipStatus enum (enums.py)
RelationshipStatus ==
    {"Blocked", "BlockedOther", "Friend", "Incoming", "None", "Outgoing", "User"}

\* Keys the event class's __init__ reads with raw_data[...]
InitKeys(cls) ==
    CASE cls = "ErrorEvent" -> {"error"}
      [] cls = "ChannelCreateEvent" -> {"_id"}
      [] cls \in {"ChannelDeleteEvent", "ServerDeleteEvent"} -> {"id"}
      [] cls \in {"ChannelUpdateEvent", "ServerUpdateEvent",
                  "ServerMemberUpdateEvent", "UserUpdateEvent"} -> {"id", "data"}
      [] cls = "ServerRoleUpdateEvent" -> {"id", "role_id", "data"}
      [] cls \in {"ChannelGroupJoinEvent", "ChannelGroupLeaveEvent",
                  "ServerMemberJoinEvent", "ServerMemberLeaveEvent"} -> {"id", "user"}
      [] cls = "UserRelationshipEvent" -> {"id", "user", "status"}
      [] cls = "ServerRoleDeleteEvent" -> {"id", "role_id"}
      [] OTHER -> {}

\* Classes that inherit Event._gateway_handle (pass)
InertClasses ==
    {"_UnknownEvent", "MessageUpdateEvent", "MessageDeleteEvent",
     "ChannelStartTypingEvent", "ChannelStopTypingEvent", "ChannelAckEvent"}

\* event._gateway_handle(), by class
Event_gateway_handle(st, ev) ==
    CASE ev.cls = "ErrorEvent" -> ErrorEvent_handle(st, ev.raw_data)
      [] ev.cls = "AuthenticatedEvent" -> AuthenticatedEvent_handle(st, ev.raw_data)
      [] ev.cls = "ReadyEvent" -> ReadyEvent_handle(st, ev.raw_data)
      [] ev.cls = "MessageEvent" -> MessageEvent_handle(st, ev.raw_data)
      [] ev.cls = "ChannelCreateEvent" -> ChannelCreateEvent_handle(st, ev.raw_data)
      [] ev.cls = "ChannelDeleteEvent" -> ChannelDeleteEvent_handle(st, ev.raw_data)
      [] ev.cls = "ServerDeleteEvent" -> ServerDeleteEvent_handle(st, ev.raw_data)
      [] ev.cls = "ServerMemberLeaveEvent" ->
             ServerMemberLeaveEvent_handle(st, ev.raw_data)
      [] ev.cls = "ServerRoleDeleteEvent" ->
             ServerRoleDeleteEvent_handle(st, ev.raw_data)
      [] ev.cls = "ChannelUpdateEvent" -> ChannelUpdateEvent_handle(st, ev.raw_data)
      [] ev.cls = "ChannelGroupJoinEvent" ->
             ChannelGroupJoinEvent_handle(st, ev.raw_data)
      [] ev.cls = "ChannelGroupLeaveEvent" ->
             ChannelGroupLeaveEvent_handle(st, ev.raw_data)
      [] ev.cls = "ServerUpdateEvent" -> ServerUpdateEvent_handle(st, ev.raw_data)
      [] ev.cls = "ServerMemberUpdateEvent" ->
             ServerMemberUpdateEvent_handle(st, ev.raw_data)
      [] ev.cls = "ServerMemberJoinEvent" ->
             ServerMemberJoinEvent_handle(st, ev.raw_data)
      [] ev.cls = "ServerRoleUpdateEvent" ->
             ServerRoleUpdateEvent_handle(st, ev.raw_data)
      [] ev.cls = "UserUpdateEvent" -> UserUpdateEvent_handle(st, ev.raw_data)
      [] ev.cls = "UserRelationshipEvent" ->
             UserRelationshipEvent_handle(st, ev.raw_data)
      [] ev.cls \in InertClasses -> Ok(st)

(***************************************************************************)
(* Frames and payloads fed to the receive loop                             *)
(***************************************************************************)
SrvRaw(sid, chans) == [_id |-> sid, name |-> "server", channels |-> chans]
TextRaw(cid, sid) ==
    [_id |-> cid, channel_type |-> "TextChannel", server |-> sid, name |-> "text"]
GroupRaw(cid, rcpts) ==
    [_id |-> cid, channel_type |-> "Group", recipients |-> rcpts, name |-> "group"]
UserRaw(uid) == [_id |-> uid, username |-> "user"]
MemberRaw(sid, uid) == [_id |-> [server |-> sid, user |-> uid]]

\* Three snapshots a server may send.  Optional keys (description, roles,
\* nickname, relationship) are present in some and absent in others.
Ready1 ==
    [type |-> "Ready",
     servers |-> << SrvRaw("s1", <<"c1">>) @@
                    [description |-> "about s1",
                     roles |-> [r \in {"r1"} |-> [name |-> "admin"]]] >>,
     channels |-> << TextRaw("c1", "s1") @@ [description |-> "about c1"] >>,
     users |-> << UserRaw("u1") @@ [relationship |-> "User"],
                  UserRaw("u2") @@ [relationship |-> "Friend"] >>,
     members |-> << MemberRaw("s1", "u1") @@ [nickname |-> "nick"],
                    MemberRaw("s1", "u2") >>]

Ready2 ==
    [type |-> "Ready",
     servers |-> << SrvRaw("s1", <<"c1">>), SrvRaw("s2", <<"c2">>) >>,
     channels |-> << TextRaw("c1", "s1"), TextRaw("c2", "s2") >>,
     users |-> << UserRaw("u1") @@ [relationship |-> "User"] >>,
     members |-> << MemberRaw("s1", "u1"), MemberRaw("s2", "u1") >>]

Ready3 ==
    [type |-> "Ready",
     servers |-> << SrvRaw("s2", <<"c2">>) @@ [description |-> "about s2"] >>,
     channels |-> << TextRaw("c2", "s2"), GroupRaw("g1", <<"u1", "u2">>) >>,
     users |-> << UserRaw("u1") @@ [relationship |-> "User"], UserRaw("u2") >>,
     members |-> << MemberRaw("s2", "u1"), MemberRaw("s2", "u2") >>]

ReadyPayloads == {Ready1, Ready2, Ready3}

TextContent == [str |-> "hello"]
SystemContent == [type |-> "user_joined", id |-> "u2"]

MessageRaw(cid, content) ==
    [type |-> "Message", _id |-> "m1", channel |-> cid, author |-> "u2",
     content |-> content]

ErrorValues ==
    {"AlreadyAuthenticated", "InvalidSession", "OnboardingNotFinished", "LabelMe"}

\* Payloads of the pipeline specification: every way a frame can end
PipelinePayloads ==
    {[type |-> "Error", error |-> e] : e \in ErrorValues}
    \cup {[type |-> "Authenticated"], Ready1,
          MessageRaw("c1", TextContent),
          [type |-> "ChannelDelete", id |-> "c1"],
          [type |-> "ChannelDelete"],
          [type |-> "UnknownFutureEvent"],
          [id |-> "c1"]}

\* Payloads of the cache specification: the events that mutate the caches
CachePayloads ==
    ReadyPayloads
    \cup {[type |-> "ChannelCreate"] @@ TextRaw("c1", "s1"),
          [type |-> "ChannelCreate"] @@ TextRaw("c2", "s2"),
          [type |-> "ChannelCreate"] @@ GroupRaw("g1", <<"u1">>)}
    \cup {[type |-> "ChannelDelete", id |-> c] : c \in {"c1", "c2", "g1"}}
    \cup {[type |-> "ServerDelete", id |-> s] : s \in {"s1", "s2"}}
    \cup {[type |-> "ServerMemberLeave", id |-> s, user |-> u] :
             s \in {"s1", "s2"}, u \in {"u1", "u2"}}
    \cup {[type |-> "ServerRoleDelete", id |-> s, role_id |-> "r1"] :
             s \in {"s1", "s2"}}
    \cup {MessageRaw("c1", TextContent), MessageRaw("c1", SystemContent)}

\* A snapshot in which every optional field the update events can clear
\* or patch carries a value; u1 is the client's own user.
ReadyFull ==
    [type |-> "Ready",
     servers |-> << SrvRaw("s1", <<"c1">>) @@
                    [description |-> "about s1", icon |-> "icon-s1",
                     banner |-> "banner-s1",
                     roles |-> [r \in {"r1"} |->
                                  [name |-> "admin", colour |-> "blue"]]] >>,
     channels |-> << TextRaw("c1", "s1") @@
                        [description |-> "about c1", icon |-> "icon-c1",
                         last_message_id |-> "m0"],
                     GroupRaw("g1", <<"u1", "u2">>) @@
                        [description |-> "about g1", icon |-> "icon-g1"],
                     [_id |-> "d1", channel_type |-> "DirectMessage",
                      active |-> TRUE, recipients |-> <<"u1", "u2">>] >>,
     users |-> << UserRaw("u1") @@
                     [relationship |-> "User",
                      relations |-> <<[_id |-> "u2", status |-> "Friend"]>>],
                  UserRaw("u2") @@
                     [relationship |-> "Friend", avatar |-> "avatar-u2",
                      status |-> [text |-> "away", presence |-> "Busy"]] >>,
     members |-> << MemberRaw("s1", "u1"),
                    MemberRaw("s1", "u2") @@
                       [nickname |-> "nick", avatar |-> "avatar-m2"] >>]

\* The same snapshot for a client user whose data carries no relations
ReadyNoRelations ==
    [ReadyFull EXCEPT !.users[1] = UserRaw("u1") @@ [relationship |-> "User"]]

\* raw_data of an update event; clear = None stands for an absent marker
UpdateRaw(type, id, clear, data) ==
    IF clear = None THEN [type |-> type, id |-> id, data |-> data]
    ELSE [type |-> type, id |-> id, data |-> data, clear |-> clear]

\* Payloads of the update specification: each update event with and
\* without a marker, with an empty patch, a patch of the cleared field and
\* a patch of another field, for cached and uncached targets; text and
\* system messages in each kind of channel that keeps a last_message_id;
\* the client's own user (u1) and others leaving a server, joining and
\* leaving a group (g1) and a channel without recipients (c1)
UpdatePayloads ==
    {UpdateRaw("ChannelUpdate", "c1", c, d) :
        c \in {None, "Icon", "Description"},
        d \in {EmptyDict, [icon |-> "icon-new"], [name |-> "renamed"]}}
    \cup {UpdateRaw("ChannelUpdate", "g1", "Icon", d) :
             d \in {EmptyDict, [icon |-> "icon-new"]}}
    \cup {UpdateRaw("ChannelUpdate", "d1", "Icon", [active |-> FALSE]),
          UpdateRaw("ChannelUpdate", "c9", None, [name |-> "renamed"])}
    \cup {UpdateRaw("ServerUpdate", "s1", c, d) :
             c \in {None, "Icon", "Banner"},
             d \in {EmptyDict, [banner |-> "banner-new"]}}
    \cup {UpdateRaw("ServerRoleUpdate", "s1", c, d) @@ [role_id |-> "r1"] :
             c \in {None, "Colour"},
             d \in {EmptyDict, [colour |-> "red"], [name |-> "mod"]}}
    \cup {UpdateRaw("ServerRoleUpdate", "s1", None, d) @@ [role_id |-> "r2"] :
             d \in {[name |-> "new"], [id |-> "r2", name |-> "new"]}}
    \cup {UpdateRaw("UserUpdate", "u2", c, d) :
             c \in {None, "StatusText", "Avatar"},
             d \in {EmptyDict, [avatar |-> "avatar-new"],
                    [status |-> [text |-> "back"]]}}
    \cup {UpdateRaw("UserUpdate", "u9", None, [username |-> "renamed"])}
    \cup {MessageRaw(c, content) :
             c \in {"c1", "g1", "d1"}, content \in {TextContent, SystemContent}}
    \cup {[type |-> "ServerMemberLeave", id |-> "s1", user |-> u] :
             u \in {"u1", "u2"}}
    \cup {[type |-> "UserRelationship", id |-> "u1", user |-> UserRaw(u),
           status |-> s] :
             u \in {"u2", "u9"}, s \in {"None", "Blocked", "Unheard"}}
    \cup {[type |-> t, id |-> c, user |-> u] :
             t \in {"ChannelGroupJoin", "ChannelGroupLeave"},
             c \in {"g1", "c1"}, u \in {"u1", "u2", "u3"}}
    \cup {[type |-> "MessageUpdate", id |-> "m1", channel |-> "c1",
           data |-> [content |-> TextContent]],
          [type |-> "MessageDelete", id |-> "m1", channel |-> "c1"],
          [type |-> "ChannelStartTyping", id |-> "c1", user |-> "u2"],
          [type |-> "ChannelStopTyping", id |-> "c1", user |-> "u2"],
          [type |-> "ChannelAck", id |-> "c1", user |-> "u1",
           message_id |-> "m1"]}

\* ServerMemberUpdate carries a compound id
MemberUpdatePayloads ==
    {UpdateRaw("ServerMemberUpdate", [server |-> "s1", user |-> "u2"], c, d) :
        c \in {None, "Nickname", "Avatar"},
        d \in {EmptyDict, [nickname |-> "nick-new"]}}
    \cup {UpdateRaw("ServerMemberUpdate", [server |-> "s1", user |-> "u9"],
                    None, [nickname |-> "nick-new"])}

\* The frame type each gateway format parses (gateway.py 156, 165)
ExpectedFrameType(format) == IF format = "json" THEN "TEXT" ELSE "BINARY"

\* Frames the socket iterator yields: data frames of either transport type
\* and the transport's ERROR frame (CLOSE ends the iteration instead).
\* WsTypes and FramesOf follow.
WsTypes == {"TEXT", "BINARY", "ERROR"}

\* One frame of the type the format cannot parse is enough: parse_message
\* raises before it looks at the data.
FramesOf(payloads, format) ==
    {[type |-> ExpectedFrameType(format), data |-> p] : p \in payloads}
    \cup {[type |-> t, data |-> [type |-> "Authenticated"]] :
             t \in WsTypes \ {ExpectedFrameType(format), "ERROR"}}
    \cup {[type |-> "ERROR", data |-> [exception |-> "WebSocketError"]]}

NoMsg == [type |-> "none"]
NoEvent == [cls |-> "none"]

CacheFrames == {[type |-> "TEXT", data |-> p] : p \in CachePayloads}

(***************************************************************************)
(* The dispatcher (event_handler.py)                                       *)
(***************************************************************************)
ListenerIds == {"l1", "l2"}

\* Classes a listener is registered for in this model
ListenClasses == {"Event", "MessageEvent"}

\* an event class that would not derive from Event
Mro_without_Event(cls) == <<cls, "object">>

\* cls.__mro__: every event variant is a @final direct subclass of Event
Mro(cls) == IF cls = "Event" THEN <<"Event", "object">>
            ELSE <<cls, "Event", "object">>

\* a dispatch that looks only at the event's own class
DispatchClasses_own_class(cls) == <<cls>>

\* itertools.islice(reversed(cls.__mro__), 1, None): object is skipped
DispatchClasses(cls) ==
    [i \in 1..(Len(Mro(cls)) - 1) |-> Mro(cls)[Len(Mro(cls)) - i]]

\* self.listeners.get(cls, [])
ListenersGet(reg, cls) == IF cls \in DOMAIN reg THEN reg[cls] ELSE <<>>

RECURSIVE Concat(_)
Concat(ss) == IF ss = <<>> THEN <<>> ELSE Head(ss) \o Concat(Tail(ss))

\* The classes whose channel property looks the channel up in the store
\* when it is first read (events.py 449-451, 470-472, 495-497)
LazyChannelClasses ==
    {"ChannelStartTypingEvent", "ChannelStopTypingEvent", "ChannelAckEvent"}

\* event.channel_id of those classes: raw_data["id"], None for the others
Event_channel_id(ev) ==
    IF ev.cls \in LazyChannelClasses /\ "id" \in DOMAIN ev.raw_data
    THEN ev.raw_data.id
    ELSE None

\* event.channel read now: self._state.channels[self.channel_id]
Event_channel_raises(st, channel_id) == channel_id \notin DOMAIN st.channels

\* EventHandler.dispatch: one task per registration, classes in MRO order;
\* the task holds the event, of which channel_id is kept here
TasksFor(reg, c, ev, seq) ==
    [i \in DOMAIN ListenersGet(reg, c) |->
        [listener |-> ListenersGet(reg, c)[i], seq |-> seq, cls |-> ev.cls,
         status |-> "scheduled", channel_id |-> Event_channel_id(ev)]]

DispatchTasks(reg, ev, seq) ==
    Concat([i \in DOMAIN DispatchClasses(ev.cls) |->
               TasksFor(reg, DispatchClasses(ev.cls)[i], ev, seq)])

\* call_listener without its try/except: the exception leaves the task
call_listener_no_except(outcome) ==
    IF outcome = "raise" THEN "propagated" ELSE "returned"

\* EventHandler.call_listener: what becomes of the listener's outcome.
\* "caught" is the except Exception branch (printed, swallowed).
call_listener(outcome) ==
    IF outcome = "raise" THEN "caught" ELSE "returned"

(***************************************************************************)
(* connect() and poll_loop (gateway.py)                                    *)
(***************************************************************************)
\* poll_loop with the ERROR frame check moved inside the try
poll_loop_next_error_caught(at, raised) ==
    CASE at = "check" -> IF raised THEN "recv" ELSE "decode"
      [] at = "decode" -> IF raised THEN "recv" ELSE "apply"
      [] at = "apply" -> IF raised THEN "recv" ELSE "dispatch"
      [] at = "dispatch" -> "recv"

\* poll_loop with the apply step left out: a decoded event goes straight
\* to dispatch
poll_loop_next_skip_apply(at, raised) ==
    CASE at = "check" -> IF raised THEN "done" ELSE "decode"
      [] at = "decode" -> IF raised THEN "recv" ELSE "dispatch"
      [] at = "apply" -> IF raised THEN "recv" ELSE "dispatch"
      [] at = "dispatch" -> "recv"

\* poll_loop without the try/except around the apply step
poll_loop_next_no_except(at, raised) ==
    CASE at = "check" -> IF raised THEN "done" ELSE "decode"
      [] at = "decode" -> IF raised THEN "recv" ELSE "apply"
      [] at = "apply" -> IF raised THEN "done" ELSE "dispatch"
      [] at = "dispatch" -> "recv"

\* Where poll_loop goes after a step, given whether the step raised:
\*   check    (107-108) raise msg.data leaves the loop and connect()
\*   decode   (111)     inside the try: logged, continue
\*   apply    (112)     inside the try: logged, continue
\*   dispatch (125)     back to the socket iterator
poll_loop_next(at, raised) ==
    CASE at = "check" -> IF raised THEN "done" ELSE "decode"
      [] at = "decode" -> IF raised THEN "recv" ELSE "apply"
      [] at = "apply" -> IF raised THEN "recv" ELSE "dispatch"
      [] at = "dispatch" -> "recv"

\* a loop that would take the next frame while the current one is still
\* waiting for its apply step
LoopAwaitsFrame_during_apply(at) == at \in {"recv", "apply"}

\* a loop that would wait for every listener it started before taking the
\* next frame
LoopAwaitsFrame_after_listeners(at) ==
    at = "recv" /\ \A i \in DOMAIN tasks : tasks[i].status # "suspended"

\* The loop is suspended in `async for msg in self.ws` (line 106); only
\* then can the next frame be taken and can other tasks run.
LoopAwaitsFrame(at) == at = "recv"

\* parse_message + Event._from_dict + the event class's __init__:
\* the exception raised, or NoExc
DecodeExc(format, m) ==
    IF m.type # ExpectedFrameType(format) THEN "RuntimeError"
    ELSE IF "type" \notin DOMAIN m.data THEN "KeyError"
    ELSE IF ~(InitKeys(EVENTS(m.data.type)) \subseteq DOMAIN m.data) THEN "KeyError"
    ELSE IF EVENTS(m.data.type) = "UserRelationshipEvent"
            /\ m.data.status \notin RelationshipStatus
    THEN "ValueError"
    ELSE NoExc

\* Event._from_dict
Event_from_dict(raw) == [cls |-> EVENTS(raw.type), raw_data |-> raw]

\* No add_listener call has inferred an event class yet
NoCall == [sig |-> <<>>, hint |-> "<none>", outcome |-> "none"]

\* Bookkeeping of the run: nrecv frames taken from the socket, napply apply
\* steps run for the current frame, applied the frames whose apply step
\* completed, outcome how each frame's iteration ended, caught the frame
\* whose listener first raised into call_listener, unhandled whether a
\* listener's exception ever left call_listener, reg the last add_listener
\* call that had to infer the event class and how it ended.
Settle(h, outcome) == [h EXCEPT !.outcome = Append(@, outcome)]

(***************************************************************************)
(* ExponentialBackoff (backoff.py)                                         *)
(***************************************************************************)
\* max_attempts=None
NoMaxAttempts == -1

\* ExponentialBackoff.__init__
ExponentialBackoff(max_attempts, max_delay) ==
    [max_attempts |-> max_attempts, max_delay |-> max_delay,
     attempt |-> 0, exponent |-> 0]

\* What a get_delay call gave back: None, a delay (base + jitter/JitterSteps)
\* or the MaxAttemptsReached it raised
Returned(kind, base, jitter) == [kind |-> kind, base |-> base, jitter |-> jitter]

\* a delay that keeps doubling past the ceiling
get_delay_next_unclamped(self, delay, jitter) ==
    [self |-> [self EXCEPT !.attempt = @ + 1, !.exponent = @ + 1],
     ret |-> Returned("delay", delay, jitter)]

\* ExponentialBackoff.get_delay, lines 47-53: the delay and the new state
get_delay_next(self, delay, jitter) ==
    IF delay >= self.max_delay
    THEN [self |-> [self EXCEPT !.attempt = @ + 1],
          ret |-> Returned("delay", self.max_delay, jitter)]
    ELSE [self |-> [self EXCEPT !.attempt = @ + 1, !.exponent = @ + 1],
          ret |-> Returned("delay", delay, jitter)]

\* a cap that is reached one request earlier
get_delay_early_cap(self, jitter) ==
    IF self.attempt = 0
    THEN [self |-> [self EXCEPT !.attempt = @ + 1], ret |-> Returned("None", 0, 0)]
    ELSE IF self.max_attempts # NoMaxAttempts /\ self.attempt + 1 >= self.max_attempts
    THEN [self |-> self, ret |-> Returned("MaxAttemptsReached", 0, 0)]
    ELSE get_delay_next(self, 2 ^ self.exponent, jitter)

\* a request that, having raised once, starts over
get_delay_raise_once(self, jitter) ==
    IF self.attempt = 0
    THEN [self |-> [self EXCEPT !.attempt = @ + 1], ret |-> Returned("None", 0, 0)]
    ELSE IF self.max_attempts # NoMaxAttempts /\ self.attempt = self.max_attempts
    THEN [self |-> [self EXCEPT !.attempt = 0],
          ret |-> Returned("MaxAttemptsReached", 0, 0)]
    ELSE get_delay_next(self, 2 ^ self.exponent, jitter)

\* ExponentialBackoff.get_delay; jitter is what random.random() returns
get_delay(self, jitter) ==
    IF self.attempt = 0
    THEN [self |-> [self EXCEPT !.attempt = @ + 1], ret |-> Returned("None", 0, 0)]
    ELSE IF self.max_attempts # NoMaxAttempts /\ self.attempt = self.max_attempts
    THEN [self |-> self, ret |-> Returned("MaxAttemptsReached", 0, 0)]
    ELSE get_delay_next(self, 2 ^ self.exponent, jitter)

\* a reset that forgets the attempts and keeps the exponent
reset_keeps_exponent(self) == [self EXCEPT !.attempt = 0]

\* ExponentialBackoff.reset
reset(self) == [self EXCEPT !.attempt = 0, !.exponent = 0]

\* The backoff variable: the object and bookkeeping since construction or
\* the last reset: the result of the last get_delay call, calls made, results
\* returned (raises excluded); and the number of resets so far.
BackoffVar(self) ==
    [self |-> self, ret |-> Returned("none", 0, 0), calls |-> 0, since |-> <<>>,
     resets |-> 0, was |-> "none"]

\* Configurations: the default one, small caps, no cap; ceilings that are
\* and are not powers of two
MaxAttemptsValues == {NoMaxAttempts, 1, 2, 3, 5}
MaxDelayValues == {1, 3, 4, 64}

\* a call of get_delay()
GetDelay(jitter) ==
    /\ backoff.calls < MaxRequests
    /\ backoff' = [backoff EXCEPT
                      !.self = get_delay(backoff.self, jitter).self,
                      !.ret = get_delay(backoff.self, jitter).ret,
                      !.calls = @ + 1,
                      !.since = IF get_delay(backoff.self, jitter).ret.kind
                                      = "MaxAttemptsReached"
                                THEN @
                                ELSE Append(@, get_delay(backoff.self, jitter).ret)]
    /\ UNCHANGED gateway_vars
    /\ UNCHANGED client

\* a call of reset()
Reset ==
    /\ backoff.resets < MaxResets
    /\ backoff' = [backoff EXCEPT !.self = reset(@), !.calls = 0, !.since = <<>>,
                                  !.ret = Returned("none", 0, 0),
                                  !.resets = @ + 1,
                                  !.was = backoff.ret.kind]
    /\ UNCHANGED gateway_vars
    /\ UNCHANGED client

(***************************************************************************)
(* AuthenticationData and the Client facade                                *)
(***************************************************************************)
\* an __init__ that lets a token through whatever comes with it
AuthenticationData_token_wins(token, user_id, session_token) ==
    IF token = None /\ (user_id = None \/ session_token = None)
    THEN [exc |-> "ValueError", token |-> None, user_id |-> None,
          session_token |-> None]
    ELSE [exc |-> NoExc, token |-> token, user_id |-> user_id,
          session_token |-> session_token]

\* AuthenticationData.__init__ (authentication_data.py 23-45): the
\* exception raised, or the attributes assigned
AuthenticationData(token, user_id, session_token) ==
    IF token # None
    THEN IF user_id # None \/ session_token # None
         THEN [exc |-> "ValueError", token |-> None, user_id |-> None,
               session_token |-> None]
         ELSE [exc |-> NoExc, token |-> token, user_id |-> user_id,
               session_token |-> session_token]
    ELSE IF user_id = None \/ session_token = None
    THEN [exc |-> "ValueError", token |-> None, user_id |-> None,
          session_token |-> None]
    ELSE [exc |-> NoExc, token |-> token, user_id |-> user_id,
          session_token |-> session_token]

\* AuthenticationData.to_dict
to_dict(self) ==
    IF self.token # None THEN [token |-> self.token]
    ELSE [user_id |-> self.user_id, session_token |-> self.session_token]

\* GatewayClient.authenticate, lines 128-131: the payload sent
authenticate_payload(self) == [type |-> "Authenticate"] @@ to_dict(self)

\* what a call on the client did: the method, its arguments, the exception
Result(op, args, exc) == [op |-> op, args |-> args, exc |-> exc]

NoResult == Result("none", <<>>, NoExc)

\* No client yet; Client.__init__ (client.py 108-130) assigns
\* _authentication_data and _closed = False, while _session, _gateway and
\* _rest are only annotated on the class (80-82) and assigned by login()
\* and connect().  ws is the socket as Client.close meets it.
ClientNew ==
    [constructed |-> FALSE,
     auth |-> AuthenticationData(None, None, None),
     session |-> Unset, gateway |-> Unset, closed |-> FALSE,
     ws_close_called |-> FALSE, result |-> NoResult, calls |-> 0]

\* Client(token=..., user_id=..., session_token=...)
Client_init(c, token, user_id, session_token) ==
    IF AuthenticationData(token, user_id, session_token).exc # NoExc
    THEN [c EXCEPT !.result = Result("__init__", <<token, user_id, session_token>>,
                                     "ValueError"),
                   !.calls = @ + 1]
    ELSE [c EXCEPT !.constructed = TRUE,
                   !.auth = AuthenticationData(token, user_id, session_token),
                   !.result = Result("__init__", <<token, user_id, session_token>>,
                                     NoExc),
                   !.calls = @ + 1]

\* a client of a bot account, as the other specifications use it
BotClient == [Client_init(ClientNew, "token", None, None) EXCEPT
                 !.result = NoResult, !.calls = 0]

Tokens == {None, "token"}
UserIds == {None, "user_id"}
SessionTokens == {None, "session_token"}

\* Client.wait_for (client.py 135-146): EventHandler defines __init__,
\* add_listener, dispatch and call_listener (event_handler.py 35-95); the
\* attribute lookup of line 143 is the first thing the call does
EventHandlerAttrs == {"listeners", "add_listener", "dispatch", "call_listener"}

Client_wait_for(c, event_cls, timeout) ==
    IF "add_waiter" \notin EventHandlerAttrs
    THEN [c EXCEPT !.result = Result("wait_for", <<event_cls, timeout>>,
                                     "AttributeError"),
                   !.calls = @ + 1]
    ELSE [c EXCEPT !.result = Result("wait_for", <<event_cls, timeout>>, NoExc),
                   !.calls = @ + 1]

\* Client.close (client.py 173-182) with GatewayClient.close (gateway.py
\* 91-93); at is the position of connect(): the gateway's ws attribute is
\* assigned by ws_connect (line 97), not by __init__.  _closed is assigned
\* in Client.__init__ only.
Client_close(c, at) ==
    IF c.closed THEN [c EXCEPT !.result = Result("close", <<>>, NoExc),
                               !.calls = @ + 1]
    ELSE IF c.gateway = Unset \/ at = "idle"
    THEN [c EXCEPT !.result = Result("close", <<>>, "AttributeError"),
                   !.calls = @ + 1]
    ELSE [c EXCEPT !.ws_close_called = TRUE,
                   !.session = "closed",
                   !.result = Result("close", <<>>, NoExc),
                   !.calls = @ + 1]

\* Client(...) is called
Construct(token, user_id, session_token) ==
    /\ ~client.constructed
    /\ client.calls < MaxCalls
    /\ client' = Client_init(client, token, user_id, session_token)
    /\ UNCHANGED gateway_vars
    /\ UNCHANGED backoff

\* Client.login, lines 153-156
Login ==
    /\ client.constructed
    /\ client.session = Unset
    /\ client' = [client EXCEPT !.session = "open",
                                !.result = Result("login", <<>>, NoExc)]
    /\ UNCHANGED gateway_vars
    /\ UNCHANGED backoff

\* Client.connect, line 170: GatewayClient.from_client reads
\* client._session and client._rest (gateway.py 80-88)
ClientConnect ==
    /\ client.constructed
    /\ client.gateway = Unset
    /\ client.calls < MaxCalls
    /\ client' = IF client.session = Unset
                 THEN [client EXCEPT !.result = Result("connect", <<>>,
                                                       "AttributeError"),
                                     !.calls = @ + 1]
                 ELSE [client EXCEPT !.gateway = "set",
                                     !.result = Result("connect", <<>>, NoExc),
                                     !.calls = @ + 1]
    /\ UNCHANGED gateway_vars
    /\ UNCHANGED backoff

\* Client.close() is called
Close ==
    /\ client.constructed
    /\ client.calls < MaxCalls
    /\ client' = Client_close(client, pc)
    /\ UNCHANGED gateway_vars
    /\ UNCHANGED backoff

\* Client.wait_for(event_cls, timeout=timeout) is called
WaitFor(event_cls, timeout) ==
    /\ client.constructed
    /\ client.calls < MaxCalls
    /\ client' = Client_wait_for(client, event_cls, timeout)
    /\ UNCHANGED gateway_vars
    /\ UNCHANGED backoff

GatewayInit ==
    /\ gateway_format \in {"json", "msgpack"}
    /\ pc = "idle"
    /\ connect_result = "pending"
    /\ msg = NoMsg
    /\ event = NoEvent
    /\ state = State_clear
    /\ listeners = EmptyDict
    /\ tasks = <<>>
    /\ sent = <<>>
    /\ hist = [nrecv |-> 0, napply |-> 0, applied |-> {}, outcome |-> <<>>,
               caught |-> 0, unhandled |-> FALSE, reg |-> NoCall]

\* The client after construction; a backoff with the default configuration
Init ==
    /\ GatewayInit
    /\ backoff = BackoffVar(ExponentialBackoff(5, 64))
    /\ client = BotClient

\* connect(), lines 96-99: the socket is opened
Connect ==
    /\ pc = "idle"
    /\ pc' = "authenticate"
    /\ UNCHANGED <<client, backoff, gateway_format, connect_result, msg, event, state, listeners,
                   tasks, sent, hist>>

\* a connect() that enters the loop without authenticating
Authenticate_skipped ==
    /\ pc = "authenticate"
    /\ pc' = "recv"
    /\ UNCHANGED <<client, backoff, gateway_format, connect_result, msg, event, state,
                   listeners, tasks, sent, hist>>

\* connect(), line 100: authenticate() sends the Authenticate message
Authenticate ==
    /\ pc = "authenticate"
    /\ sent' = Append(sent, "Authenticate")
    /\ pc' = "recv"
    /\ UNCHANGED <<client, backoff, gateway_format, connect_result, msg, event, state, listeners,
                   tasks, hist>>

\* poll_loop, line 106: the iterator yields the next frame
Receive(f, bound) ==
    /\ LoopAwaitsFrame(pc)
    /\ hist.nrecv < bound
    /\ Len(tasks) + MaxListeners <= MaxTasks
    /\ msg' = f
    /\ event' = NoEvent
    /\ pc' = "check"
    /\ hist' = [hist EXCEPT !.nrecv = @ + 1, !.napply = 0]
    /\ UNCHANGED <<client, backoff, gateway_format, connect_result, state, listeners, tasks, sent>>

\* poll_loop, line 106: the socket closed, the iteration ends and
\* connect() returns after logging the close code (line 103)
SocketClosed ==
    /\ pc = "recv"
    /\ pc' = "done"
    /\ connect_result' = "returned"
    /\ UNCHANGED <<client, backoff, gateway_format, msg, event, state, listeners, tasks, sent, hist>>

\* poll_loop, lines 107-108
CheckError ==
    /\ pc = "check"
    /\ pc' = poll_loop_next("check", msg.type = "ERROR")
    /\ connect_result' = IF pc' = "done" THEN msg.data.exception ELSE connect_result
    /\ hist' = IF msg.type = "ERROR" THEN Settle(hist, "fatal") ELSE hist
    /\ UNCHANGED <<client, backoff, gateway_format, msg, event, state, listeners, tasks, sent>>

\* How a step of the loop body that raised exc (or NoExc) ends.  The loop
\* variables msg and event are dead once the iteration is over (the next
\* iteration rebinds them), so they are cleared on the way back to the
\* socket.
StepEnds(at, exc, h, ev) ==
    /\ pc' = poll_loop_next(at, exc # NoExc)
    /\ connect_result' = IF pc' = "done" THEN exc ELSE connect_result
    /\ hist' = IF exc = NoExc THEN h
               ELSE Settle(h, IF pc' = "done" THEN "fatal" ELSE "dropped")
    /\ msg' = IF pc' = "recv" THEN NoMsg ELSE msg
    /\ event' = IF pc' = "recv" THEN NoEvent ELSE ev

DecodeEnds(exc) ==
    StepEnds("decode", exc, hist,
             IF exc = NoExc THEN Event_from_dict(msg.data) ELSE NoEvent)

\* poll_loop, line 111 (and 113-124 when it raises)
Decode ==
    /\ pc = "decode"
    /\ DecodeEnds(DecodeExc(gateway_format, msg))
    /\ UNCHANGED <<client, backoff, gateway_format, state, listeners, tasks, sent>>

ApplyEnds(r) ==
    /\ state' = r.st
    /\ StepEnds("apply", r.exc,
                [hist EXCEPT !.napply = @ + 1,
                             !.applied = IF r.exc = NoExc THEN @ \cup {hist.nrecv}
                                         ELSE @],
                event)

\* poll_loop, line 112 (and 113-124 when it raises)
Apply ==
    /\ pc = "apply"
    /\ event # NoEvent
    /\ \E r \in {Event_gateway_handle(state, event)} : ApplyEnds(r)
    /\ UNCHANGED <<client, backoff, gateway_format, listeners, tasks, sent>>

\* poll_loop, line 125: EventHandler.dispatch(event)
Dispatch ==
    /\ pc = "dispatch"
    /\ tasks' = tasks \o DispatchTasks(listeners, event, hist.nrecv)
    /\ pc' = poll_loop_next("dispatch", FALSE)
    /\ hist' = Settle(hist, "dispatched")
    /\ msg' = NoMsg
    /\ event' = NoEvent
    /\ UNCHANGED <<client, backoff, gateway_format, connect_result, state, listeners, sent>>

RECURSIVE NumRegistrations(_, _)
NumRegistrations(reg, classes) ==
    IF classes = {} THEN 0
    ELSE LET c == CHOOSE x \in classes : TRUE
         IN  Len(reg[c]) + NumRegistrations(reg, classes \ {c})

\* EventHandler.add_listener(listener, event_cls=cls), lines 74-81
AddListener(l, cls) ==
    /\ pc \in {"idle", "recv"}
    /\ NumRegistrations(listeners, DOMAIN listeners) < MaxListeners
    /\ listeners' = DictPut(listeners, cls, Append(ListenersGet(listeners, cls), l))
    /\ UNCHANGED <<client, backoff, gateway_format, pc, connect_result, msg, event, state, tasks,
                   sent, hist>>

\* inspect.Parameter of a listener: its kind and whether it has a default
Param(kind, default) == [kind |-> kind, default |-> default]

\* Parameter lists of length 0..2 that Python accepts in a def
ListenerSignatures ==
    LET pok(d) == Param("POSITIONAL_OR_KEYWORD", d)
        kwo(d) == Param("KEYWORD_ONLY", d)
        var == Param("VAR_POSITIONAL", FALSE)
    IN  {<<>>}
        \cup {<<pok(d)>> : d \in BOOLEAN} \cup {<<kwo(d)>> : d \in BOOLEAN}
        \cup {<<var>>}
        \cup {<<pok(FALSE), pok(d)>> : d \in BOOLEAN}
        \cup {<<pok(TRUE), pok(TRUE)>>}
        \cup {<<pok(d), kwo(e)>> : d, e \in BOOLEAN}
        \cup {<<pok(d), var>> : d \in BOOLEAN}
        \cup {<<var, kwo(d)>> : d \in BOOLEAN}

\* What get_type_hints(listener) holds for the first parameter: nothing,
\* an annotation that cannot be evaluated, or a class
TypeHints == {"<missing>", "<unresolvable>", "int", "Event", "MessageEvent"}

\* issubclass(event_cls, Event)
IsEventClass(cls) == cls \in {"Event", "MessageEvent"}

\* add_listener with event_cls=None, lines 42-79: the exception raised, or
\* "registered".  Line 71 raises for a further parameter that HAS a default.
add_listener_infer(sig, hint) ==
    IF sig = <<>> THEN "TypeError"
    ELSE IF sig[1].kind \notin {"POSITIONAL_ONLY", "POSITIONAL_OR_KEYWORD",
                                "VAR_POSITIONAL"} THEN "TypeError"
    ELSE IF hint = "<unresolvable>" THEN "NameError"
    ELSE IF hint = "<missing>" THEN "TypeError"
    ELSE IF \E i \in 2..Len(sig) : sig[i].default THEN "TypeError"
    ELSE IF ~IsEventClass(hint) THEN "TypeError"
    ELSE "registered"

\* EventHandler.add_listener(listener) without event_cls
AddListenerInferred(l, sig, hint) ==
    /\ pc \in {"idle", "recv"}
    /\ NumRegistrations(listeners, DOMAIN listeners) < MaxListeners
    /\ listeners' = IF add_listener_infer(sig, hint) = "registered"
                    THEN DictPut(listeners, hint,
                                 Append(ListenersGet(listeners, hint), l))
                    ELSE listeners
    /\ hist' = [hist EXCEPT !.reg = [sig |-> sig, hint |-> hint,
                                     outcome |-> add_listener_infer(sig, hint)]]
    /\ UNCHANGED <<client, backoff, gateway_format, pc, connect_result, msg, event, state, tasks,
                   sent>>

RemoveAt(s, i) == SubSeq(s, 1, i - 1) \o SubSeq(s, i + 1, Len(s))

\* A listener task takes a step and ends (returns or raises) or awaits.
\* Tasks only run while the receive loop is suspended or has ended.
ListenerStep(i, outcome) ==
    /\ LoopAwaitsFrame(pc) \/ pc = "done"
    /\ IF outcome = "await"
       THEN /\ tasks' = [tasks EXCEPT ![i].status = "suspended"]
            /\ hist' = hist
       ELSE /\ tasks' = RemoveAt(tasks, i)
            /\ hist' = CASE call_listener(outcome) = "caught" ->
                              [hist EXCEPT !.caught =
                                  IF @ = 0 THEN tasks[i].seq ELSE @]
                         [] call_listener(outcome) = "propagated" ->
                              [hist EXCEPT !.unhandled = TRUE]
                         [] OTHER -> hist
    /\ UNCHANGED <<client, backoff, gateway_format, pc, connect_result, msg, event, state,
                   listeners, sent>>

\* asyncio starts tasks in creation order (call_soon is FIFO)
StartListener(outcome) ==
    /\ \E i \in DOMAIN tasks :
        /\ tasks[i].status = "scheduled"
        /\ \A j \in 1..(i - 1) : tasks[j].status # "scheduled"
        /\ ListenerStep(i, outcome)

\* a suspended listener is resumed and ends
ResumeListener(i, outcome) ==
    /\ i \in DOMAIN tasks
    /\ tasks[i].status = "suspended"
    /\ ListenerStep(i, outcome)

\* The gateway's send operations a task can call besides authenticate()
\* (begin_typing, end_typing, ping; gateway.py 134-152)
SendOps == {"BeginTyping", "EndTyping", "Ping"}

\* the task asyncio would run next, or a suspended one that is woken
Runnable(i) ==
    /\ i \in DOMAIN tasks
    /\ \/ tasks[i].status = "suspended"
       \/ /\ tasks[i].status = "scheduled"
          /\ \A j \in 1..(i - 1) : tasks[j].status # "scheduled"

\* A listener calls a send operation of state.gateway: send_message hands
\* the payload to ws.send_str / ws.send_bytes (lines 172-176) with nothing
\* in between.  The library call returns at once or suspends the caller
\* until the transport has drained; in the second case the send is still
\* in progress while other tasks run.
ListenerSends(i, op, drains) ==
    /\ pc = "recv"
    /\ Runnable(i)
    /\ Len(sent) < MaxSends
    /\ sent' = Append(sent, op)
    /\ tasks' = [tasks EXCEPT ![i].status =
                     IF drains THEN "sending" ELSE "suspended"]
    /\ UNCHANGED <<client, backoff, gateway_format, pc, connect_result, msg, event,
                   state, listeners, hist>>

\* the send a listener was suspended in returns; the listener goes on
SendReturns(i, outcome) ==
    /\ i \in DOMAIN tasks
    /\ tasks[i].status = "sending"
    /\ ListenerStep(i, outcome)

PipelineStep ==
    \/ Connect
    \/ Authenticate
    \/ SocketClosed
    \/ CheckError
    \/ Decode
    \/ Apply
    \/ Dispatch

Next ==
    \/ PipelineStep
    \/ \E f \in FramesOf(PipelinePayloads, gateway_format) : Receive(f, MaxFrames)
    \/ \E l \in ListenerIds, c \in ListenClasses : AddListener(l, c)
    \/ \E o \in {"return", "raise", "await"} : StartListener(o)
    \/ \E i \in 1..Len(tasks), o \in {"return", "raise"} : ResumeListener(i, o)

Spec == Init /\ [][Next]_vars

\* Client.connect (client.py 170-171) awaits GatewayClient.connect() and
\* does nothing after it.  The event loop runs the connect() coroutine
\* whenever it is ready, hence weak fairness of its steps; frames arrive
\* and listeners end when they please.
FairSpec == Spec /\ WF_vars(PipelineStep)

\* The client specification: a Client is constructed, logged in and
\* connected; close() and wait_for() are called at any moment.  Once
\* ws.close() was called the socket yields no further frame.
ClientInit ==
    /\ GatewayInit
    /\ gateway_format = "json"
    /\ backoff = BackoffVar(ExponentialBackoff(5, 64))
    /\ client = ClientNew

ClientNext ==
    \/ \E t \in Tokens, u \in UserIds, s \in SessionTokens : Construct(t, u, s)
    \/ Login
    \/ ClientConnect
    \/ client.gateway # Unset /\ Connect
    \/ Authenticate
    \/ SocketClosed
    \/ CheckError
    \/ Decode
    \/ Apply
    \/ Dispatch
    \/ /\ ~client.ws_close_called
       /\ \E p \in {[type |-> "Authenticated"], [type |-> "UnknownFutureEvent"]} :
             Receive([type |-> "TEXT", data |-> p], MaxFrames)
    \/ Close
    \/ \E c \in ListenClasses, t \in {None, "1"} : WaitFor(c, t)

ClientSpec == ClientInit /\ [][ClientNext]_vars

\* a listener of a typing or ack event starts and reads event.channel
\* first: KeyError leaves the listener, otherwise it goes on and returns
ReadChannel ==
    \E i \in DOMAIN tasks :
        /\ tasks[i].status = "scheduled"
        /\ \A j \in 1..(i - 1) : tasks[j].status # "scheduled"
        /\ tasks[i].channel_id # None
        /\ ListenerStep(i, IF Event_channel_raises(state, tasks[i].channel_id)
                           THEN "raise" ELSE "return")

\* The channel specification: a snapshot, then typing, ack and delete
\* events for its channels, with listeners that read event.channel.
ChannelFrames ==
    {[type |-> "TEXT", data |-> p] :
        p \in {[type |-> "ChannelStartTyping", id |-> "c1", user |-> "u2"],
               [type |-> "ChannelStopTyping", id |-> "c1", user |-> "u2"],
               [type |-> "ChannelAck", id |-> "c1", user |-> "u1",
                message_id |-> "m1"],
               [type |-> "ChannelStartTyping", id |-> "c9", user |-> "u2"],
               [type |-> "ChannelDelete", id |-> "c1"]}}

ChannelNext ==
    \/ PipelineStep
    \/ hist.nrecv = 0 /\ Receive([type |-> "TEXT", data |-> Ready1], MaxChannelFrames)
    \/ hist.nrecv > 0 /\ \E f \in ChannelFrames : Receive(f, MaxChannelFrames)
    \/ \E l \in ListenerIds : AddListener(l, "Event")
    \/ ReadChannel
    \/ \E o \in {"return", "await"} : StartListener(o)

ChannelInit == Init /\ gateway_format = "json"

ChannelSpec == ChannelInit /\ [][ChannelNext]_vars

\* The link specification: a snapshot, then channels created and deleted.
LinkFrames ==
    {[type |-> "TEXT", data |-> p] :
        p \in {[type |-> "ChannelCreate"] @@ TextRaw("c1", "s1"),
               [type |-> "ChannelCreate"] @@ TextRaw("c2", "s2"),
               [type |-> "ChannelCreate"] @@ GroupRaw("g1", <<"u1">>)}
              \cup {[type |-> "ChannelDelete", id |-> c] : c \in {"c1", "c2", "g1"}}}

LinkNext ==
    \/ PipelineStep
    \/ /\ hist.nrecv = 0
       /\ \E p \in ReadyPayloads :
             Receive([type |-> "TEXT", data |-> p], MaxCacheFrames)
    \/ /\ hist.nrecv > 0
       /\ \E f \in LinkFrames : Receive(f, MaxCacheFrames)

LinkInit == Init /\ gateway_format = "json"

LinkSpec == LinkInit /\ [][LinkNext]_vars

\* The identity specification: snapshots whose user lists differ.
\* ReadyOthers lists no user with the USER relationship; ReadyBadUser lists
\* one and, after it, a user without a username.
ReadyOthers ==
    [Ready1 EXCEPT !.users = << UserRaw("u2") @@ [relationship |-> "Friend"] >>,
                   !.members = << MemberRaw("s1", "u2") >>]

ReadyBadUser ==
    [Ready1 EXCEPT !.users = << UserRaw("u1") @@ [relationship |-> "User"],
                                [_id |-> "u3"] >>]

IdentityFrames ==
    {[type |-> "TEXT", data |-> p] :
        p \in {Ready1, ReadyOthers, ReadyBadUser}
              \cup {[type |-> "ServerMemberLeave", id |-> "s1", user |-> u] :
                       u \in {"u1", "u2"}}}

IdentityNext ==
    \/ PipelineStep
    \/ \E f \in IdentityFrames : Receive(f, MaxCacheFrames)

IdentityInit == Init /\ gateway_format = "json"

IdentitySpec == IdentityInit /\ [][IdentityNext]_vars

\* The send specification: listeners that call the gateway's send
\* operations when an event reaches them.
SendNext ==
    \/ PipelineStep
    \/ \E p \in {[type |-> "Authenticated"], [type |-> "UnknownFutureEvent"]} :
          Receive([type |-> "TEXT", data |-> p], MaxFrames)
    \/ \E l \in ListenerIds, c \in ListenClasses : AddListener(l, c)
    \/ \E o \in {"return", "raise", "await"} : StartListener(o)
    \/ \E i \in 1..Len(tasks), o \in {"return", "raise"} : ResumeListener(i, o)
    \/ \E i \in 1..Len(tasks), op \in SendOps, d \in BOOLEAN :
          ListenerSends(i, op, d)
    \/ \E i \in 1..Len(tasks), o \in {"return", "raise", "await"} :
          SendReturns(i, o)

SendInit == Init /\ gateway_format = "json"

SendSpec == SendInit /\ [][SendNext]_vars

\* The cache specification: the same loop fed the cache-mutating events,
\* with no listener registered.
CacheInit == Init /\ gateway_format = "json"

CacheNext ==
    \/ PipelineStep
    \/ \E f \in CacheFrames : Receive(f, MaxCacheFrames)

CacheSpec == CacheInit /\ [][CacheNext]_vars

\* The update specification: the socket delivers the snapshot first and
\* partial updates after it.
ReceiveSnapshot ==
    /\ hist.nrecv = 0
    /\ \E p \in {ReadyFull, ReadyNoRelations} :
          Receive([type |-> "TEXT", data |-> p], MaxUpdateFrames)

ReceiveUpdate ==
    /\ hist.nrecv > 0
    /\ \E p \in UpdatePayloads :
          Receive([type |-> "TEXT", data |-> p], MaxUpdateFrames)

ReceiveMemberUpdate ==
    /\ hist.nrecv > 0
    /\ \E p \in MemberUpdatePayloads :
          Receive([type |-> "TEXT", data |-> p], MaxUpdateFrames)

UpdateNext ==
    \/ PipelineStep
    \/ ReceiveSnapshot
    \/ ReceiveUpdate
    \/ ReceiveMemberUpdate

UpdateSpec == CacheInit /\ [][UpdateNext]_vars

\* The backoff specification: backoffs of every configuration, asked for
\* delays and reset in any order.
BackoffInit ==
    /\ GatewayInit
    /\ gateway_format = "json"
    /\ \E n \in MaxAttemptsValues, d \in MaxDelayValues :
          backoff = BackoffVar(ExponentialBackoff(n, d))
    /\ client = BotClient

BackoffNext ==
    \/ \E j \in 0..(JitterSteps - 1) : GetDelay(j)
    \/ Reset

BackoffSpec == BackoffInit /\ [][BackoffNext]_vars

\* The registration specification: listeners registered with and without
\* an explicit event class, before and while the loop waits for frames.
RegNext ==
    \/ Connect
    \/ Authenticate
    \/ \E l \in ListenerIds, c \in ListenClasses : AddListener(l, c)
    \/ \E l \in ListenerIds, sig \in ListenerSignatures, h \in TypeHints :
          AddListenerInferred(l, sig, h)

RegSpec == Init /\ [][RegNext]_vars

(***************************************************************************)
(* Properties of the receive loop                                          *)
(***************************************************************************)
Last(s) == s[Len(s)]

\* C1: an event reaches dispatch only after its apply step ran exactly once
\* and completed, so the cache a listener sees already holds the event's
\* mutation; every listener task belongs to a frame whose apply completed.
C1_ApplyOnceThenDispatch ==
    /\ pc = "dispatch" =>
          /\ hist.napply = 1
          /\ hist.nrecv \in hist.applied
          /\ event.cls = "ReadyEvent" => state.ready
          /\ event.cls = "AuthenticatedEvent" => state.authenticated = "True"
    /\ (pc = "recv" /\ hist.outcome # <<>> /\ Last(hist.outcome) = "dispatched")
          => hist.napply = 1
    /\ \A i \in DOMAIN tasks : tasks[i].seq \in hist.applied

C1_Witness ==
    /\ pc = "recv"
    /\ state.ready
    /\ \E i \in DOMAIN tasks : tasks[i].cls = "ReadyEvent"

\* C2: frames are handled strictly in arrival order: while a frame is being
\* checked, decoded, applied or dispatched every earlier frame's iteration
\* has ended (dispatched, dropped or fatal), and listener tasks are
\* scheduled in the order of their frames.
C2_ArrivalOrder ==
    /\ pc \in {"check", "decode", "apply", "dispatch"}
          => Len(hist.outcome) = hist.nrecv - 1
    /\ pc \in {"recv", "done"} => Len(hist.outcome) = hist.nrecv
    /\ \A i, j \in DOMAIN tasks : i < j => tasks[i].seq <= tasks[j].seq

C2_Witness ==
    /\ hist.nrecv = 2
    /\ pc = "dispatch"
    /\ hist.outcome = <<"dispatched">>
    /\ \E i \in DOMAIN tasks : tasks[i].seq = 1

\* The typed failure the Error event stands for (events.py 132-141)
AuthFailure(error) ==
    CASE error = "InvalidSession" -> "InvalidCredentials"
      [] error = "OnboardingNotFinished" -> "OnboardingNotFinished"
      [] OTHER -> "AuthenticationError"

\* C3: an Error event other than AlreadyAuthenticated that is applied before
\* any Authenticated event ends the receive loop, and connect() raises the
\* typed authentication failure for its error value.
C3_AuthErrorTerminates ==
    [][(/\ pc = "apply"
        /\ event.cls = "ErrorEvent"
        /\ event.raw_data.error # "AlreadyAuthenticated"
        /\ state.authenticated # "True")
       => (/\ pc' = "done"
           /\ connect_result' = AuthFailure(event.raw_data.error))]_vars

C5_WrongFrameTypeFatal ==
    [][(pc = "decode" /\ msg.type # ExpectedFrameType(gateway_format))
       => (pc' = "done" /\ connect_result' = "RuntimeError")]_vars


(***************************************************************************)
(* Properties of the cache                                                 *)
(***************************************************************************)
\* The cached collections; a server's member map is its _members field
CacheView(st) ==
    [servers |-> st.servers, channels |-> st.channels, users |-> st.users]

\* C6: when a Ready is applied to the cache a different Ready left behind,
\* the servers, channels, users and member maps afterwards are exactly those
\* the second Ready produces on an empty cache, field values included.
C6_SecondReadyOnly ==
    [][(/\ pc = "apply"
        /\ event.cls = "ReadyEvent"
        /\ \E p \in ReadyPayloads \ {event.raw_data} :
              state = ReadyEvent_handle(State_clear, p).st)
       => CacheView(state') =
              CacheView(ReadyEvent_handle(State_clear, event.raw_data).st)]_vars

\* The entity a delete event names is not in the cache
DeleteTargetAbsent(st, ev) ==
    CASE ev.cls = "ChannelDeleteEvent" -> ev.raw_data.id \notin DOMAIN st.channels
      [] ev.cls = "ServerDeleteEvent" -> ev.raw_data.id \notin DOMAIN st.servers
      [] ev.cls = "ServerMemberLeaveEvent" ->
            \/ ev.raw_data.id \notin DOMAIN st.servers
            \/ ev.raw_data.user \notin DOMAIN st.servers[ev.raw_data.id]._members
      [] ev.cls = "ServerRoleDeleteEvent" ->
            \/ ev.raw_data.id \notin DOMAIN st.servers
            \/ ev.raw_data.role_id \notin DOMAIN st.servers[ev.raw_data.id].roles
      [] OTHER -> FALSE

\* C7: applying ChannelDelete, ServerDelete, ServerMemberLeave or
\* ServerRoleDelete for an entity that is not cached does not raise (the
\* event goes on to dispatch) and leaves the cache unchanged.
C7_IdempotentDelete ==
    [][(pc = "apply" /\ DeleteTargetAbsent(state, event))
       => (pc' = "dispatch" /\ state' = state)]_vars

\* C8: every cached channel that has a server_id references a server that
\* is in the servers map.
C8_ChannelServerCached ==
    \A c \in DOMAIN state.channels :
        "server_id" \in DOMAIN state.channels[c]
            => state.channels[c].server_id \in DOMAIN state.servers

(***************************************************************************)
(* Properties of the dispatcher                                            *)
(***************************************************************************)
\* Tasks of listener l scheduled for frame seq
CountTasks(ts, l, seq) ==
    Cardinality({i \in DOMAIN ts : ts[i].listener = l /\ ts[i].seq = seq})

\* Registrations of listener l under class cls
CountRegistrations(reg, cls, l) ==
    Cardinality({i \in DOMAIN ListenersGet(reg, cls) : ListenersGet(reg, cls)[i] = l})

\* C9: dispatch schedules, for every listener, one task per registration
\* under the event's own class or under its ancestor Event, and nothing
\* for a registration under another class; the tasks already scheduled stay.
C9_DispatchByClass ==
    [][pc = "dispatch" =>
         /\ \A l \in ListenerIds :
               CountTasks(tasks', l, hist.nrecv) =
                   CountRegistrations(listeners, event.cls, l)
                   + CountRegistrations(listeners, "Event", l)
         /\ SubSeq(tasks', 1, Len(tasks)) = tasks
         /\ \A i \in (Len(tasks) + 1)..Len(tasks') :
               tasks'[i].seq = hist.nrecv /\ tasks'[i].status = "scheduled"]_vars

\* a Ready was dispatched to the Event listener alone, a Message to the
\* Event listener and to the MessageEvent listener
C9_Witness ==
    /\ pc = "recv"
    /\ Len(tasks) = 3
    /\ tasks[1].cls = "ReadyEvent"
    /\ tasks[2].cls = "MessageEvent"
    /\ tasks[3].cls = "MessageEvent"
    /\ tasks[2].listener # tasks[3].listener
    /\ DOMAIN listeners = {"Event", "MessageEvent"}

\* C10: a listener's exception never leaves call_listener, and a listener
\* task that ends (raising or not) leaves every other task, the connection,
\* the cache and the receive loop as they were.
C10_ListenerIsolated ==
    /\ [](~hist.unhandled)
    /\ [][Len(tasks') < Len(tasks) =>
            /\ \E i \in DOMAIN tasks : tasks' = RemoveAt(tasks, i)
            /\ pc' = pc
            /\ connect_result' = connect_result
            /\ state' = state]_vars

\* a listener of the first frame raised, its sibling is still running, and
\* the loop has applied the second frame and is dispatching it
C10_Witness ==
    /\ hist.caught = 1
    /\ hist.nrecv = 2
    /\ pc = "dispatch"
    /\ connect_result = "pending"
    /\ \E i \in DOMAIN tasks : tasks[i].seq = 1 /\ tasks[i].status = "suspended"

(***************************************************************************)
(* Unknown events, late errors, the authenticated flag, ERROR frames       *)
(***************************************************************************)
\* C12: a payload whose type is not in the registry decodes to the inert
\* _UnknownEvent; its apply step returns without touching the cache, and
\* its dispatch schedules every registration made under Event.
C12_UnknownEventInert ==
    [][/\ (/\ pc = "decode"
           /\ DecodeExc(gateway_format, msg) = NoExc
           /\ msg.data.type = "UnknownFutureEvent")
          => event'.cls = "_UnknownEvent"
       /\ (pc = "apply" /\ event.cls = "_UnknownEvent")
          => (state' = state /\ pc' = "dispatch")
       /\ (pc = "dispatch" /\ event.cls = "_UnknownEvent")
          => \A l \in ListenerIds :
                CountTasks(tasks', l, hist.nrecv) =
                    CountRegistrations(listeners, "Event", l)]_vars

C12_Witness ==
    /\ pc = "recv"
    /\ "Event" \in DOMAIN listeners
    /\ \E i \in DOMAIN tasks : tasks[i].cls = "_UnknownEvent"

\* C13: once Authenticated was applied, applying an Error event raises
\* nothing and leaves the state as it was; the event goes on to dispatch
\* and the loop to the next frame.
C13_LateErrorIgnored ==
    [][(/\ pc = "apply"
        /\ event.cls = "ErrorEvent"
        /\ state.authenticated = "True")
       => (/\ state' = state
           /\ pc' = "dispatch"
           /\ connect_result' = "pending")]_vars

C13_Witness ==
    /\ pc = "dispatch"
    /\ event.cls = "ErrorEvent"
    /\ event.raw_data.error = "InvalidSession"
    /\ state.authenticated = "True"

\* C14: the authenticated flag is a defined boolean in every state, false
\* from construction on, and only the apply step of an Authenticated event
\* turns it true.
C14_AuthenticatedFlag ==
    /\ [](state.authenticated \in {"True", "False"})
    /\ [][(state'.authenticated = "True" /\ state.authenticated # "True")
          => (pc = "apply" /\ event.cls = "AuthenticatedEvent")]_vars

\* C15: a frame of type ERROR ends connect() with the frame's exception;
\* the frame is not decoded, applied or dispatched, and once connect() has
\* ended no further frame is taken.
C15_ErrorFrameFatal ==
    [][/\ (pc = "check" /\ msg.type = "ERROR")
          => (/\ pc' = "done"
              /\ connect_result' = msg.data.exception
              /\ event' = NoEvent
              /\ state' = state
              /\ tasks' = tasks
              /\ hist'.napply = 0)
       /\ pc = "done" => (pc' = "done" /\ hist'.nrecv = hist.nrecv
                          /\ state' = state /\ Len(tasks') <= Len(tasks))]_vars

C15_Witness ==
    /\ pc = "done"
    /\ connect_result = "WebSocketError"
    /\ hist.nrecv = 1
    /\ hist.outcome = <<"fatal">>

(***************************************************************************)
(* Registration                                                            *)
(***************************************************************************)
\* A listener add_listener may infer the class of: it can be called with
\* the event as its only positional argument (the first parameter is
\* positional, every further parameter is optional) and the first
\* parameter's annotation resolves to an event class
ListenerAcceptable(sig, hint) ==
    /\ sig # <<>>
    /\ sig[1].kind \in {"POSITIONAL_ONLY", "POSITIONAL_OR_KEYWORD",
                        "VAR_POSITIONAL"}
    /\ \A i \in 2..Len(sig) : sig[i].default \/ sig[i].kind = "VAR_POSITIONAL"
    /\ IsEventClass(hint)

\* C11: add_listener without an event class registers an acceptable
\* listener under its annotated class, and rejects every other listener
\* with TypeError, leaving the registry unchanged.
C11_SignatureChecked ==
    [][hist'.reg # hist.reg =>
         IF ListenerAcceptable(hist'.reg.sig, hist'.reg.hint)
         THEN /\ hist'.reg.outcome = "registered"
              /\ NumRegistrations(listeners', DOMAIN listeners')
                    = NumRegistrations(listeners, DOMAIN listeners) + 1
         ELSE /\ hist'.reg.outcome = "TypeError"
              /\ listeners' = listeners]_vars

(***************************************************************************)
(* Partial updates                                                         *)
(***************************************************************************)
UpdateEventClasses ==
    {"ChannelUpdateEvent", "ServerUpdateEvent", "ServerMemberUpdateEvent",
     "ServerRoleUpdateEvent", "UserUpdateEvent"}

\* The entity an update event addresses is in the cache
TargetCached(st, ev) ==
    CASE ev.cls = "ChannelUpdateEvent" -> ev.raw_data.id \in DOMAIN st.channels
      [] ev.cls = "ServerUpdateEvent" -> ev.raw_data.id \in DOMAIN st.servers
      [] ev.cls = "ServerMemberUpdateEvent" ->
             /\ ev.raw_data.id.server \in DOMAIN st.servers
             /\ ev.raw_data.id.user
                   \in DOMAIN st.servers[ev.raw_data.id.server]._members
      [] ev.cls = "ServerRoleUpdateEvent" ->
             /\ ev.raw_data.id \in DOMAIN st.servers
             /\ ev.raw_data.role_id \in DOMAIN st.servers[ev.raw_data.id].roles
      [] ev.cls = "UserUpdateEvent" -> ev.raw_data.id \in DOMAIN st.users
      [] OTHER -> FALSE

\* The cached entity an update event addresses
Target(st, ev) ==
    CASE ev.cls = "ChannelUpdateEvent" -> st.channels[ev.raw_data.id]
      [] ev.cls = "ServerUpdateEvent" -> st.servers[ev.raw_data.id]
      [] ev.cls = "ServerMemberUpdateEvent" ->
             st.servers[ev.raw_data.id.server]._members[ev.raw_data.id.user]
      [] ev.cls = "ServerRoleUpdateEvent" ->
             st.servers[ev.raw_data.id].roles[ev.raw_data.role_id]
      [] ev.cls = "UserUpdateEvent" -> st.users[ev.raw_data.id]

\* The attribute a clear marker names; data carries it under the same key
MarkerAttr ==
    [Icon |-> "icon", Banner |-> "banner", Description |-> "description",
     Nickname |-> "nickname", Avatar |-> "avatar", Colour |-> "colour"]

\* An update of a cached entity is being applied and its marker names one
\* of the entity's attributes
ClearApplies ==
    /\ pc = "apply"
    /\ event.cls \in UpdateEventClasses
    /\ TargetCached(state, event)
    /\ "clear" \in DOMAIN event.raw_data
    /\ event.raw_data.clear \in DOMAIN MarkerAttr
    /\ MarkerAttr[event.raw_data.clear] \in DOMAIN Target(state, event)

\* C16: when a partial-update event is applied to a cached entity, the
\* attribute its clear marker names ends up absent unless the data carries
\* that attribute, in which case the attribute ends up with the value from
\* the data; a user's "StatusText" marker does the same to the status text.
C16_ClearThenPatch ==
    [][/\ ClearApplies =>
            Target(state', event)[MarkerAttr[event.raw_data.clear]]
               = IF MarkerAttr[event.raw_data.clear] \in DOMAIN event.raw_data.data
                 THEN event.raw_data.data[MarkerAttr[event.raw_data.clear]]
                 ELSE None
       /\ (/\ pc = "apply"
           /\ event.cls = "UserUpdateEvent"
           /\ TargetCached(state, event)
           /\ "clear" \in DOMAIN event.raw_data
           /\ event.raw_data.clear = "StatusText")
          => Target(state', event).status.text
                = IF "status" \in DOMAIN event.raw_data.data
                     /\ "text" \in DOMAIN event.raw_data.data.status
                  THEN event.raw_data.data.status.text
                  ELSE None]_vars

\* a channel whose icon was both cleared and patched by the update applied last
C16_Witness ==
    /\ pc = "dispatch"
    /\ event.cls = "ChannelUpdateEvent"
    /\ event.raw_data = UpdateRaw("ChannelUpdate", "c1", "Icon", [icon |-> "icon-new"])
    /\ state.channels["c1"].icon = "icon-new"
    /\ state.channels["c1"].description = "about c1"

\* The field table of the entity an update event addresses
TargetFIELDS(st, ev) ==
    CASE ev.cls = "ChannelUpdateEvent" -> ChannelFIELDS(Target(st, ev).cls)
      [] ev.cls = "ServerUpdateEvent" -> ServerFIELDS
      [] ev.cls = "ServerMemberUpdateEvent" -> MemberFIELDS
      [] ev.cls = "ServerRoleUpdateEvent" -> RoleFIELDS
      [] ev.cls = "UserUpdateEvent" -> UserFIELDS

\* The state with the addressed entity replaced by new
WithTarget(st, ev, new) ==
    CASE ev.cls = "ChannelUpdateEvent" ->
             [st EXCEPT !.channels[ev.raw_data.id] = new]
      [] ev.cls = "ServerUpdateEvent" ->
             [st EXCEPT !.servers[ev.raw_data.id] = new]
      [] ev.cls = "ServerMemberUpdateEvent" ->
             [st EXCEPT !.servers[ev.raw_data.id.server]
                            ._members[ev.raw_data.id.user] = new]
      [] ev.cls = "ServerRoleUpdateEvent" ->
             [st EXCEPT !.servers[ev.raw_data.id].roles[ev.raw_data.role_id] = new]
      [] ev.cls = "UserUpdateEvent" -> [st EXCEPT !.users[ev.raw_data.id] = new]

\* The attribute is named by the event's clear marker
NamedByClear(raw, a) ==
    /\ "clear" \in DOMAIN raw
    /\ \/ raw.clear \in DOMAIN MarkerAttr /\ MarkerAttr[raw.clear] = a
       \/ raw.clear = "StatusText" /\ a = "status"

\* C17: when a partial-update event is applied to a cached entity, an
\* attribute of that entity whose key is not in the event's data and that is
\* not named by clear keeps its value (of a user's status, "StatusText"
\* changes the text only), the entity's set of attributes stays the same,
\* and everything else in the state is unchanged.
C17_PatchOnlyPresent ==
    [][(/\ pc = "apply"
        /\ event.cls \in UpdateEventClasses
        /\ TargetCached(state, event))
       => (/\ DOMAIN Target(state', event) = DOMAIN Target(state, event)
           /\ \A a \in DOMAIN Target(state, event) :
                 (/\ a \in DOMAIN TargetFIELDS(state, event)
                         => ~FieldPresent(event.raw_data.data,
                                          TargetFIELDS(state, event)[a].keys)
                  /\ ~NamedByClear(event.raw_data, a))
                 => Target(state', event)[a] = Target(state, event)[a]
           /\ (event.cls = "UserUpdateEvent"
               /\ "status" \notin DOMAIN event.raw_data.data)
              => Target(state', event).status.presence
                    = Target(state, event).status.presence
           /\ state' = WithTarget(state, event, Target(state', event)))]_vars

\* a member whose nickname was patched while its avatar, set by the
\* snapshot, is still there, next to the untouched other member
C17_Witness ==
    /\ pc = "dispatch"
    /\ event.cls = "ServerMemberUpdateEvent"
    /\ event.raw_data.data = [nickname |-> "nick-new"]
    /\ "clear" \notin DOMAIN event.raw_data
    /\ state.servers["s1"]._members["u2"].nickname = "nick-new"
    /\ state.servers["s1"]._members["u2"].avatar = "avatar-m2"
    /\ "u1" \in DOMAIN state.servers["s1"]._members

(***************************************************************************)
(* Messages and membership                                                 *)
(***************************************************************************)
\* C18: when a MessageEvent is applied to a cached channel that has a
\* last_message_id (direct message, group or text channel), the pointer
\* becomes the message's id if the content is text and keeps its value if
\* the content is a system message.
C18_LastMessagePointer ==
    [][(/\ pc = "apply"
        /\ event.cls = "MessageEvent"
        /\ event.raw_data.channel \in DOMAIN state.channels
        /\ "last_message_id" \in DOMAIN state.channels[event.raw_data.channel])
       => (/\ event.raw_data.content = TextContent
              => state'.channels[event.raw_data.channel].last_message_id
                    = event.raw_data._id
           /\ event.raw_data.content = SystemContent
              => state'.channels[event.raw_data.channel].last_message_id
                    = state.channels[event.raw_data.channel].last_message_id)]_vars

\* a text message has advanced the direct-message channel's pointer and the
\* system message applied last left the text channel's pointer alone
C18_Witness ==
    /\ pc = "dispatch"
    /\ event.cls = "MessageEvent"
    /\ event.raw_data = MessageRaw("c1", SystemContent)
    /\ state.channels["c1"].last_message_id = "m0"
    /\ state.channels["d1"].last_message_id = "m1"

\* C19: when a ServerMemberLeave of a cached server is applied, the server
\* is removed from the servers map if the leaving user is the client's own
\* user; for any other user the server stays cached, with exactly that
\* user's entry gone from its member map; nothing else in the state changes.
C19_MemberLeave ==
    [][(/\ pc = "apply"
        /\ event.cls = "ServerMemberLeaveEvent"
        /\ event.raw_data.id \in DOMAIN state.servers)
       => IF event.raw_data.user = state.user
          THEN state' = [state EXCEPT !.servers = DictRemove(@, event.raw_data.id)]
          ELSE state' = [state EXCEPT !.servers[event.raw_data.id]._members =
                                         DictRemove(@, event.raw_data.user)]]_vars

\* the client's own leave took the server; the server's channel is still
\* in the channels map
C19_Witness ==
    /\ pc = "dispatch"
    /\ event.cls = "ServerMemberLeaveEvent"
    /\ state.user = "u1"
    /\ event.raw_data.user = "u1"
    /\ event.raw_data.id = "s1"
    /\ "s1" \notin DOMAIN state.servers
    /\ "c1" \in DOMAIN state.channels

\* C20: when a ChannelGroupJoin is applied to a cached channel that has a
\* recipient list, the joining user is appended to the list; when a
\* ChannelGroupLeave of one of the recipients is applied, the channel is
\* removed from the channels map if that user is the client's own user, and
\* otherwise stays cached with the user removed from the list; nothing else
\* in the state changes.
C20_GroupJoinLeave ==
    [][/\ (/\ pc = "apply"
           /\ event.cls = "ChannelGroupJoinEvent"
           /\ event.raw_data.id \in DOMAIN state.channels
           /\ "recipient_ids" \in DOMAIN state.channels[event.raw_data.id])
          => state' = [state EXCEPT !.channels[event.raw_data.id].recipient_ids =
                                       Append(@, event.raw_data.user)]
       /\ (/\ pc = "apply"
           /\ event.cls = "ChannelGroupLeaveEvent"
           /\ event.raw_data.id \in DOMAIN state.channels
           /\ "recipient_ids" \in DOMAIN state.channels[event.raw_data.id]
           /\ event.raw_data.user
                 \in Range(state.channels[event.raw_data.id].recipient_ids))
          => IF event.raw_data.user = state.user
             THEN state' = [state EXCEPT !.channels = DictRemove(@, event.raw_data.id)]
             ELSE state' = [state EXCEPT
                               !.channels[event.raw_data.id].recipient_ids =
                                   ListRemove(@, event.raw_data.user)]]_vars

\* the client's own leave dropped the group from the cache
C20_Witness ==
    /\ pc = "dispatch"
    /\ event.cls = "ChannelGroupLeaveEvent"
    /\ event.raw_data.id = "g1"
    /\ event.raw_data.user = "u1"
    /\ state.user = "u1"
    /\ "g1" \notin DOMAIN state.channels
    /\ "d1" \in DOMAIN state.channels

(***************************************************************************)
(* Relationships                                                           *)
(***************************************************************************)
\* C21: when a UserRelationship event is applied, the client user's
\* relations afterwards hold no entry for the target user if the status is
\* "None", and hold the status under the target user's id otherwise; in
\* both cases a cached target user's relationship_status is the new status.
C21_RelationshipStored ==
    [][(/\ pc = "apply"
        /\ event.cls = "UserRelationshipEvent"
        /\ state.user # Unset)
       => (/\ event.raw_data.status = "None"
              => \/ state'.users[state.user].relations = NoRelations
                 \/ event.raw_data.user._id
                       \notin DOMAIN state'.users[state.user].relations
           /\ event.raw_data.status # "None"
              => /\ state'.users[state.user].relations # NoRelations
                 /\ event.raw_data.user._id
                       \in DOMAIN state'.users[state.user].relations
                 /\ state'.users[state.user].relations[event.raw_data.user._id]
                       = event.raw_data.status
           /\ event.raw_data.user._id \in DOMAIN state.users
              => state'.users[event.raw_data.user._id].relationship_status
                    = event.raw_data.status)]_vars

(***************************************************************************)
(* Backoff                                                                 *)
(***************************************************************************)
\* The backoff was built with max_attempts=5, max_delay=64
DefaultBackoff ==
    backoff.self.max_attempts = 5 /\ backoff.self.max_delay = 64

\* r is a delay d with lo <= d < hi
DelayIn(r, lo, hi) ==
    /\ r.kind = "delay"
    /\ lo * JitterSteps <= r.base * JitterSteps + r.jitter
    /\ r.base * JitterSteps + r.jitter < hi * JitterSteps

\* The results returned so far start None, [1,2), [2,3), [4,5), [8,9)
DefaultSequencePrefix ==
    \A k \in DOMAIN backoff.since :
        IF k = 1 THEN backoff.since[k].kind = "None"
        ELSE DelayIn(backoff.since[k], 2 ^ (k - 2), 2 ^ (k - 2) + 1)

\* C22 as stated: with the default configuration the requests yield None,
\* [1,2), [2,3), [4,5) and the next request signals exhaustion, so no more
\* than four requests succeed.
C22_FourBeforeExhaustion ==
    DefaultBackoff =>
        /\ DefaultSequencePrefix
        /\ Len(backoff.since) <= 4
        /\ backoff.calls > 4 => backoff.ret.kind = "MaxAttemptsReached"

\* C22 amended: with the default configuration the requests yield None,
\* [1,2), [2,3), [4,5), [8,9) and every request after these five signals
\* exhaustion; exhaustion is not signalled before five requests succeeded.
C22_FiveBeforeExhaustion ==
    DefaultBackoff =>
        /\ DefaultSequencePrefix
        /\ Len(backoff.since) <= 5
        /\ backoff.calls > 5 => backoff.ret.kind = "MaxAttemptsReached"
        /\ backoff.ret.kind = "MaxAttemptsReached" => Len(backoff.since) = 5

\* the default backoff is exhausted after a fifth result in [8,9)
C22_Witness ==
    /\ DefaultBackoff
    /\ backoff.resets = 0
    /\ backoff.ret.kind = "MaxAttemptsReached"
    /\ Len(backoff.since) = 5
    /\ DelayIn(backoff.since[5], 8, 9)

\* the configured cap, if any, is reached by the results returned so far
CapReached ==
    /\ backoff.self.max_attempts # NoMaxAttempts
    /\ Len(backoff.since) = backoff.self.max_attempts

\* C23: for every cap n >= 1 a request raises MaxAttemptsReached exactly when
\* n requests have succeeded since construction or the last reset, so it
\* keeps raising until reset() is called; without a cap no request raises.
C23_ExhaustionAfterN ==
    [][backoff'.calls = backoff.calls + 1 =>
          ((backoff'.ret.kind = "MaxAttemptsReached") <=> CapReached)]_vars

\* two requests in a row have raised after the cap of three was reached
C23_Witness ==
    /\ backoff.self.max_attempts = 3
    /\ Len(backoff.since) = 3
    /\ backoff.calls = 5
    /\ backoff.ret.kind = "MaxAttemptsReached"

SmallerOf(a, b) == IF a <= b THEN a ELSE b

\* C24: after the free first request the k-th returned delay has the base
\* min(2^(k-1), max_delay) and a jitter in [0,1): the base doubles up to the
\* ceiling, stays there and never exceeds max_delay.
C24_DoublingToCeiling ==
    \A k \in DOMAIN backoff.since :
        k > 1 =>
            /\ backoff.since[k].kind = "delay"
            /\ backoff.since[k].base
                   = SmallerOf(2 ^ (k - 2), backoff.self.max_delay)
            /\ backoff.since[k].base <= backoff.self.max_delay
            /\ backoff.since[k].jitter \in 0..(JitterSteps - 1)

\* with the ceiling 4 the delays 1, 2, 4 were followed by 4 again
C24_Witness ==
    /\ backoff.self.max_delay = 4
    /\ Len(backoff.since) >= 5
    /\ backoff.since[3].base = 2
    /\ backoff.since[4].base = 4
    /\ backoff.since[5].base = 4

\* a freshly constructed instance of the same configuration after n requests
RECURSIVE FreshAfter(_, _)
FreshAfter(self, n) ==
    IF n = 0 THEN ExponentialBackoff(self.max_attempts, self.max_delay)
    ELSE get_delay(FreshAfter(self, n - 1), 0).self

\* C25: after reset(), from any state, the instance is in the state of a
\* fresh instance of the same configuration: the next request returns None
\* and every later result is the one the fresh instance gives at that place.
C25_ResetRestarts ==
    backoff.resets > 0 =>
        /\ backoff.self = FreshAfter(backoff.self, Len(backoff.since))
        /\ \A k \in DOMAIN backoff.since :
               backoff.since[k]
                   = get_delay(FreshAfter(backoff.self, k - 1),
                               backoff.since[k].jitter).ret
        /\ Len(backoff.since) > 0 => backoff.since[1].kind = "None"

\* reset from the exhausted state, then None and the delays 1 and 2 again
C25_Witness ==
    /\ backoff.resets > 0
    /\ backoff.was = "MaxAttemptsReached"
    /\ Len(backoff.since) = 3
    /\ backoff.since[1].kind = "None"
    /\ backoff.since[2].base = 1
    /\ backoff.since[3].base = 2

(***************************************************************************)
(* The connection                                                          *)
(***************************************************************************)
\* C26: connect() opens the socket and sends exactly one Authenticate
\* before any frame is taken; it ends only when the socket closes (it
\* returns) or an ERROR frame raises; once it has ended the socket is not
\* opened again and nothing more is sent or received.
C26_ConnectOnce ==
    /\ [](/\ pc \in {"idle", "authenticate"} => (sent = <<>> /\ hist.nrecv = 0)
          /\ pc \notin {"idle", "authenticate"} => sent = <<"Authenticate">>
          /\ (pc = "done") <=> (connect_result # "pending"))
    /\ [][/\ (pc' = "done" /\ pc # "done")
             => \/ pc = "recv" /\ connect_result' = "returned"
                \/ pc = "check" /\ msg.type = "ERROR"
          /\ pc' = "authenticate" => pc = "idle"
          /\ pc = "done" => (/\ pc' = "done"
                             /\ sent' = sent
                             /\ hist'.nrecv = hist.nrecv
                             /\ connect_result' = connect_result)]_vars

\* connect() returned on the socket's closure after two frames
C26_Witness ==
    /\ pc = "done"
    /\ connect_result = "returned"
    /\ hist.nrecv = 2
    /\ sent = <<"Authenticate">>

\* connect() has authenticated and has not ended
ConnectionOpen == pc \in {"recv", "check", "decode", "apply", "dispatch"}

\* C27: from authentication until the connection closes a heartbeat task
\* exists and sends pings; once the connection has closed, gracefully or
\* through an error, there is no heartbeat task.
C27_HeartbeatLifetime ==
    /\ ConnectionOpen => state.heartbeat_task # None
    /\ pc = "done" => state.heartbeat_task = None

\* C28: when the socket closes unexpectedly the client asks the backoff for
\* a delay and connects again, unless the backoff is exhausted.
C28_FacadeReconnects ==
    (pc = "done" /\ connect_result = "returned")
        ~> (pc = "authenticate" \/ backoff.calls > 0)

(***************************************************************************)
(* Listeners and the loop                                                  *)
(***************************************************************************)
SomeSuspended == \E i \in DOMAIN tasks : tasks[i].status = "suspended"

SomeScheduled == \E i \in DOMAIN tasks : tasks[i].status = "scheduled"

\* C29: while a listener is suspended no step is blocked: the loop can
\* take the next frame, check, decode, apply and dispatch it, a listener
\* scheduled meanwhile can start and run to its end, and another suspended
\* listener can resume and end.  (The apply step of a Ready snapshot is
\* enabled by the same guard as every other apply step.)
C29_SuspendedBlocksNothing ==
    SomeSuspended =>
        /\ (pc = "recv" /\ hist.nrecv < MaxFrames
                /\ Len(tasks) + MaxListeners <= MaxTasks)
           => ENABLED (\E f \in FramesOf(PipelinePayloads, gateway_format) :
                          Receive(f, MaxFrames))
        /\ pc = "check" => ENABLED CheckError
        /\ pc = "decode" => ENABLED Decode
        /\ (pc = "apply" /\ event.cls # "ReadyEvent") => ENABLED Apply
        /\ pc = "dispatch" => ENABLED Dispatch
        /\ (SomeScheduled /\ pc \in {"recv", "done"})
           => ENABLED StartListener("return")
        /\ pc \in {"recv", "done"}
           => \A i \in DOMAIN tasks :
                  tasks[i].status = "suspended"
                      => ENABLED ResumeListener(i, "return")

\* the listener of the first frame is still suspended; the second frame was
\* dispatched and a listener of it ran to its end (it raised, was caught)
C29_Witness ==
    /\ \E i \in DOMAIN tasks : tasks[i].status = "suspended" /\ tasks[i].seq = 1
    /\ hist.nrecv = 2
    /\ hist.applied = {1, 2}
    /\ hist.outcome = <<"dispatched", "dispatched">>
    /\ hist.caught = 2

\* the tasks suspended inside a send
Sending == {i \in DOMAIN tasks : tasks[i].status = "sending"}

\* C30: at most one send is in progress on the connection at any time,
\* however many tasks call the gateway's send operations.
C30_SendsExclusive == Cardinality(Sending) <= 1

(***************************************************************************)
(* The Client facade                                                       *)
(***************************************************************************)
\* C31: a wait_for with a timeout ends by returning the awaited event or
\* with the timeout condition, and after it the registered listeners are
\* those registered before the call.
C31_WaitTimesOut ==
    /\ [](client.result.op = "wait_for" /\ client.result.args[2] # None
          => client.result.exc \in {NoExc, "TimeoutError"})
    /\ [][client'.result.op = "wait_for" /\ client'.calls = client.calls + 1
          => listeners' = listeners]_vars

\* the credentials given are of exactly one kind
OneKind(args) ==
    \/ args[1] # None /\ args[2] = None /\ args[3] = None
    \/ args[1] = None /\ args[2] # None /\ args[3] # None

\* C33: Client(...) accepts a token alone or a user_id with a
\* session_token and raises ValueError for every other combination; the
\* Authenticate payload of an accepted client carries the token only, or
\* the user_id and the session_token only, with the values given.
C33_OneKindOfCredentials ==
    /\ client.result.op = "__init__"
       => /\ client.result.exc = (IF OneKind(client.result.args) THEN NoExc
                                  ELSE "ValueError")
          /\ client.constructed <=> OneKind(client.result.args)
          /\ client.constructed
             => authenticate_payload(client.auth)
                  \in {[type |-> "Authenticate", token |-> client.result.args[1]],
                       [type |-> "Authenticate",
                        user_id |-> client.result.args[2],
                        session_token |-> client.result.args[3]]}
    /\ client.constructed
       => /\ OneKind(<<client.auth.token, client.auth.user_id,
                       client.auth.session_token>>)
          /\ DOMAIN authenticate_payload(client.auth)
               \in {{"type", "token"}, {"type", "user_id", "session_token"}}
          /\ \A k \in DOMAIN authenticate_payload(client.auth) :
                authenticate_payload(client.auth)[k] # None

\* a client of a user account has sent its Authenticate message
C33_Witness ==
    /\ client.constructed
    /\ client.auth.token = None
    /\ sent = <<"Authenticate">>
    /\ authenticate_payload(client.auth)
         = [type |-> "Authenticate", user_id |-> "user_id",
            session_token |-> "session_token"]

\* C40: close() raises in no lifecycle state, and a close() after a
\* previous close() changes neither the gateway nor the HTTP session.
C40_CloseAnywhere ==
    /\ [](client.result.op = "close" => client.result.exc = NoExc)
    /\ [][(/\ client.session = "closed"
           /\ client'.result.op = "close"
           /\ client'.calls = client.calls + 1)
          => (/\ client'.session = client.session
              /\ client'.ws_close_called = client.ws_close_called
              /\ client'.gateway = client.gateway)]_vars

(***************************************************************************)
(* Messages are not cached                                                 *)
(***************************************************************************)
MessageClasses ==
    {"MessageEvent", "MessageUpdateEvent", "MessageDeleteEvent",
     "ChannelStartTypingEvent", "ChannelStopTypingEvent", "ChannelAckEvent"}

\* channel record ch without its last-message pointer
WithoutLastMessage(ch) ==
    [k \in DOMAIN ch \ {"last_message_id"} |-> ch[k]]

\* C32: the apply step of a Message, MessageUpdate, MessageDelete,
\* ChannelStartTyping, ChannelStopTyping or ChannelAck event leaves the
\* servers, channels and users maps with the same entities and field
\* values; only a Message event may change a channel's last_message_id,
\* and then to the ID of that message.
C32_MessagesNotStored ==
    [][(pc = "apply" /\ event.cls \in MessageClasses)
       => /\ state'.servers = state.servers
          /\ state'.users = state.users
          /\ DOMAIN state'.channels = DOMAIN state.channels
          /\ \A c \in DOMAIN state.channels :
                /\ DOMAIN state'.channels[c] = DOMAIN state.channels[c]
                /\ WithoutLastMessage(state'.channels[c])
                     = WithoutLastMessage(state.channels[c])
                /\ state'.channels[c] # state.channels[c]
                   => /\ event.cls = "MessageEvent"
                      /\ c = event.raw_data.channel
                      /\ state'.channels[c].last_message_id = event.raw_data._id
          /\ state'.user = state.user]_vars

\* a message was applied and dispatched and moved the channel's pointer;
\* the store holds the three channels of the snapshot
C32_Witness ==
    /\ hist.nrecv = 2
    /\ hist.applied = {1, 2}
    /\ pc = "dispatch"
    /\ event.cls = "MessageEvent"
    /\ event.raw_data.channel = "c1"
    /\ state.channels["c1"].last_message_id = event.raw_data._id
    /\ event.raw_data._id \notin DOMAIN state.channels

(***************************************************************************)
(* Roles                                                                   *)
(***************************************************************************)
\* C34: applying a ServerRoleUpdate to a cached server creates the role
\* under role_id when the server's role map lacks it and patches the
\* existing role in place when it has it: the apply step succeeds, the
\* other roles are untouched and the role map then contains role_id.
C34_RoleCreatedOrPatched ==
    [][(/\ pc = "apply"
        /\ event.cls = "ServerRoleUpdateEvent"
        /\ event.raw_data.id \in DOMAIN state.servers)
       => /\ pc' = "dispatch"
          /\ event.raw_data.role_id
                \in DOMAIN state'.servers[event.raw_data.id].roles
          /\ \A r \in DOMAIN state.servers[event.raw_data.id].roles :
                r # event.raw_data.role_id
                => /\ r \in DOMAIN state'.servers[event.raw_data.id].roles
                   /\ state'.servers[event.raw_data.id].roles[r]
                        = state.servers[event.raw_data.id].roles[r]]_vars

(***************************************************************************)
(* Failed events                                                           *)
(***************************************************************************)
\* C35: an event whose apply step raises leaves the store as it was
\* before that event.
C35_FailedApplyLeavesStore ==
    [][(pc = "apply" /\ pc' = "recv") => state' = state]_vars

(***************************************************************************)
(* The apply step and the listeners                                        *)
(***************************************************************************)
\* a listener task started, resumed, suspended or ended in this step
ListenerRan == tasks' # tasks /\ pc # "dispatch"

C37_ChannelResolvable ==
    \A i \in DOMAIN tasks :
        (tasks[i].status = "scheduled" /\ tasks[i].channel_id # None)
            => ~Event_channel_raises(state, tasks[i].channel_id)

(***************************************************************************)
(* Servers and their channel lists                                         *)
(***************************************************************************)
NoDuplicates(ids) == \A i, j \in DOMAIN ids : ids[i] = ids[j] => i = j

\* C38: for every cached server, channel_ids lists no ID twice and lists
\* every cached channel whose server_id is that server.
C38_ChannelIdsExact ==
    \A s \in DOMAIN state.servers :
        /\ NoDuplicates(state.servers[s].channel_ids)
        /\ \A c \in DOMAIN state.channels :
              ("server_id" \in DOMAIN state.channels[c]
               /\ state.channels[c].server_id = s)
                  => c \in Range(state.servers[s].channel_ids)

(***************************************************************************)
(* The client's own user                                                   *)
(***************************************************************************)
\* C39: whenever state.user is set, state.users holds an entry under its
\* ID (state.user is kept as that ID, the entry being the object itself).
C39_UserIsCached == state.user # Unset => state.user \in DOMAIN state.users

====
